---- MODULE Spec2Model ----
(***************************************************************************)
(* The bzip2 decompressor core: the resumable stream/block parser          *)
(* BZ2_decompress of decompress.c, driven through bzDecompress.            *)
(*                                                                         *)
(* One behaviour is one decode session over one input file.  The caller    *)
(* hands the file to the session in chunks; inside a call every bit fetch  *)
(* (GET_BITS at one state label) is one step, every byte load is one step   *)
(* and the return through save_state_and_return is one step.               *)
(***************************************************************************)
EXTENDS Integers, Sequences, FiniteSets, TLC

VARIABLES
    input,      \* the bytes of the file the caller reads, in order
    strm,       \* bz_stream: next_in, avail_in, total_in_lo32, total_in_hi32
    s,          \* DState: the decode session, save area included
    loc,        \* the locals of BZ2_decompress (after return: as they were left)
    pc,         \* where control is: caller, bzDecompress, BZ2_decompress, save_state_and_return
    ret,        \* what the last call returned to the caller ("none" before the first)
    hist,       \* history of the session, kept for the properties only
    ref,        \* the outcome of the same file fed in one piece
    drv,        \* uncompressStream / testStream of bzip2.c at work on a file
    blk         \* one parsed block, inverted and walked in both modes

vars == <<input, strm, s, loc, pc, ret, hist, ref, drv, blk>>

(***************************************************************************)
(* Program constants                                                       *)
(***************************************************************************)
BZ_HDR_B == 66
BZ_HDR_Z == 90
BZ_HDR_h == 104
BZ_HDR_0 == 48
BZ_N_GROUPS == 6
BZ_G_SIZE == 50
BZ_MAX_ALPHA_SIZE == 258
BZ_MAX_CODE_LEN == 23
BZ_MAX_SELECTORS == 18002
BZ_RUNA == 0
BZ_RUNB == 1
MTFA_SIZE == 4096
MTFL_SIZE == 16
RunLimit == 2097152
BlockUnit == 100000

Pow2(n) == 2 ^ n

(***************************************************************************)
(* Integer and 32-bit arithmetic.  A uint32_t is a pair <<hi, lo>> of      *)
(* 16-bit halves; values known to stay below 2^31 are plain integers.      *)
(***************************************************************************)
Shr(x, n) == x \div Pow2(n)
Low(x, n) == x % Pow2(n)
H16 == 65536

RECURSIVE XorBits(_, _, _)
XorBits(a, b, n) ==
    IF n = 0 THEN 0
    ELSE ((a + b) % 2) + 2 * XorBits(a \div 2, b \div 2, n - 1)

Xor8(a, b) == XorBits(a, b, 8)
Xor32(a, b) == <<XorBits(a[1], b[1], 16), XorBits(a[2], b[2], 16)>>
Zero32 == <<0, 0>>
Ones32 == <<H16 - 1, H16 - 1>>
Not32(w) == <<(H16 - 1) - w[1], (H16 - 1) - w[2]>>
Shl32By1(w) == <<(w[1] % (H16 \div 2)) * 2 + (w[2] \div (H16 \div 2)), (w[2] % (H16 \div 2)) * 2>>
Shl32By8(w) == <<(w[1] % 256) * 256 + (w[2] \div 256), (w[2] % 256) * 256>>
RotL32By1(w) == <<Shl32By1(w)[1], Shl32By1(w)[2] + (w[1] \div (H16 \div 2))>>

\* (w >> k) & ((1 << n) - 1) for a uint32_t w, 0 <= k <= 31, n <= 30
Field32(w, k, n) ==
    IF k >= 16 THEN Low(Shr(w[1], k - 16), n)
    ELSE IF n <= 16 - k THEN Low(Shr(w[2], k), n)
    ELSE Low(w[1], n - (16 - k)) * Pow2(16 - k) + Shr(w[2], k)

Min(a, b) == IF a < b THEN a ELSE b

(***************************************************************************)
(* Arrays.  A C array is a function from the indices that have been        *)
(* written to their values; a cell that was never written reads as 0.      *)
(***************************************************************************)
Get(a, i) == IF i \in DOMAIN a THEN a[i] ELSE 0
Put(a, i, v) ==
    IF i \in DOMAIN a THEN [a EXCEPT ![i] = v]
    ELSE a @@ (i :> v)
Empty == [k \in {} |-> 0]

(***************************************************************************)
(* The session and the locals                                              *)
(***************************************************************************)
NULL == -1

SavedLocals ==
    {"i", "j", "t", "alphaSize", "nGroups", "nSelectors", "EOB", "groupNo",
     "groupPos", "nextSym", "nblockMAX", "nblock", "es", "N", "curr", "zt",
     "zn", "zvec", "zj", "gSel", "gMinlen", "gLimit", "gBase", "gPerm"}

\* The save area as BZ2_decompress initialises it when state = BZ_X_MAGIC_1.
InitSaveArea ==
    [f \in SavedLocals |-> IF f \in {"gLimit", "gBase", "gPerm"} THEN NULL ELSE 0]

\* The session as bzDecompressInit leaves it.
InitDState(small) ==
    [ state |-> "BZ_X_MAGIC_1",
      bsBuff |-> Zero32, bsLive |-> 0,
      smallDecompress |-> small,
      blockSize100k |-> 0,
      currBlockNo |-> 0,
      ttAlloc |-> 0, ll16Alloc |-> 0, ll4Alloc |-> 0,
      storedBlockCRC |-> Zero32, storedCombinedCRC |-> Zero32,
      calculatedBlockCRC |-> Zero32, calculatedCombinedCRC |-> Zero32,
      blockRandomised |-> 0,
      origPtr |-> 0,
      inUse16 |-> Empty, inUse |-> Empty,
      nInUse |-> 0, seqToUnseq |-> Empty,
      selectorMtf |-> Empty, selector |-> Empty,
      len |-> [g \in 0..(BZ_N_GROUPS - 1) |-> Empty],
      limit |-> [g \in 0..(BZ_N_GROUPS - 1) |-> Empty],
      base |-> [g \in 0..(BZ_N_GROUPS - 1) |-> Empty],
      perm |-> [g \in 0..(BZ_N_GROUPS - 1) |-> Empty],
      minLens |-> Empty,
      unzftab |-> Empty, cftab |-> Empty, cftabCopy |-> Empty,
      mtfa |-> Empty, mtfbase |-> Empty,
      tt |-> Empty, ll16 |-> Empty, ll4 |-> Empty,
      tPos |-> 0, nblock_used |-> 0, k0 |-> 0,
      state_out_len |-> 0, state_out_ch |-> 0,
      rNToGo |-> 0, rTPos |-> 0,
      save |-> InitSaveArea ]

\* The locals of BZ2_decompress.  base is the block-scoped local of the
\* mapping-table loop (line 272); it is 0 while it is out of scope.
InitLocals ==
    [ i |-> 0, j |-> 0, t |-> 0, alphaSize |-> 0, nGroups |-> 0,
      nSelectors |-> 0, EOB |-> 0, groupNo |-> 0, groupPos |-> 0,
      nextSym |-> 0, nblockMAX |-> 0, nblock |-> 0, es |-> 0, N |-> 0,
      curr |-> 0, zt |-> 0, zn |-> 0, zvec |-> 0, zj |-> 0, gSel |-> 0,
      gMinlen |-> 0, gLimit |-> NULL, gBase |-> NULL, gPerm |-> NULL,
      base |-> 0, retVal |-> "BZ_OK", total_in |-> 0 ]

InitStrm == [next_in |-> 0, avail_in |-> 0, total_in_lo32 |-> 0, total_in_hi32 |-> 0]

InitHist ==
    [fed |-> 0, err |-> "none", ends |-> 0, allocs |-> 0, uninit |-> FALSE,
     out |-> <<>>, boundary |-> 0, crcs |-> <<>>, syms |-> 0, run |-> <<>>,
     rev |-> 0]

\* The machine: everything one step reads and writes.
Machine(in, st, ds, lc, p, r, h) ==
    [input |-> in, strm |-> st, s |-> ds, loc |-> lc, pc |-> p, ret |-> r, hist |-> h]

M == Machine(input, strm, s, loc, pc, ret, hist)

Apply(m) ==
    /\ strm' = m.strm
    /\ s' = m.s
    /\ loc' = m.loc
    /\ pc' = m.pc
    /\ ret' = m.ret
    /\ hist' = m.hist
    /\ UNCHANGED <<input, ref, drv, blk>>

\* Undefined behaviour whose outcomes are not enumerated: the run ends here.
Undefined(m) == [m EXCEPT !.pc = "undefined", !.hist.uninit = TRUE]

ErrorCodes == {"BZ_DATA_ERROR", "BZ_DATA_ERROR_MAGIC", "BZ_MEM_ERROR"}

(***************************************************************************)
(* RETURN, GET_BITS                                                        *)
(***************************************************************************)
\* RETURN(rrr): retVal = rrr; goto save_state_and_return
RETURN(m, rrr) == [m EXCEPT !.loc.retVal = rrr, !.pc = "save_state_and_return"]

\* Control reaches the fetch at label lll: case lll: s->state = lll
Goto(m, lll) == [m EXCEPT !.s.state = lll]

\* The number of bits of the file parsed so far, and a block boundary noted
\* in the history.
BitPos(m) == 8 * m.strm.next_in - m.s.bsLive
AtBoundary(m) == [m EXCEPT !.hist.boundary = BitPos(m)]

\* The width nnn of the fetch at the current label.
Width(m) ==
    LET st == m.s.state IN
    CASE st \in {"BZ_X_RANDBIT", "BZ_X_MAPPING_1", "BZ_X_MAPPING_2",
                 "BZ_X_SELECTOR_3", "BZ_X_CODING_2", "BZ_X_CODING_3",
                 "BZ_X_MTF_2", "BZ_X_MTF_4", "BZ_X_MTF_6"} -> 1
      [] st = "BZ_X_SELECTOR_1" -> 3
      [] st = "BZ_X_SELECTOR_2" -> 15
      [] st = "BZ_X_CODING_1" -> 5
      [] st \in {"BZ_X_MTF_1", "BZ_X_MTF_3", "BZ_X_MTF_5"} -> m.loc.zn
      [] OTHER -> 8

\* v = (s->bsBuff >> (s->bsLive-nnn)) & ((1 << nnn)-1)
BitsMutLow(bsBuff, bsLive, nnn) == Field32(bsBuff, 0, nnn)
BitsValue(bsBuff, bsLive, nnn) == Field32(bsBuff, bsLive - nnn, nnn)

\* The value the pending fetch delivers.
Val(m) == BitsValue(m.s.bsBuff, m.s.bsLive, Width(m))

\* s->bsLive -= nnn
TakeMutKeep(m) == m
Take(m) == [m EXCEPT !.s.bsLive = @ - Width(m)]

\* s->bsBuff = (s->bsBuff << 8) | *next_in
ShiftInMutNoShift(bsBuff, byte) == <<0, byte>>
ShiftIn(bsBuff, byte) == <<Shl32By8(bsBuff)[1], Shl32By8(bsBuff)[2] + byte>>

\* One turn of the GET_BITS loop that loads a byte (lines 54-61).
LoadMutKeepAvail(m) ==
    [m EXCEPT !.s.bsBuff = ShiftIn(@, m.input[m.strm.next_in + 1]),
              !.s.bsLive = @ + 8,
              !.strm.next_in = @ + 1,
              !.loc.total_in = @ + 1]
GET_BITS_load(m) ==
    [m EXCEPT !.s.bsBuff = ShiftIn(@, m.input[m.strm.next_in + 1]),
              !.s.bsLive = @ + 8,
              !.strm.next_in = @ + 1,
              !.strm.avail_in = @ - 1,
              !.loc.total_in = @ + 1]

(***************************************************************************)
(* Entry (lines 105-193) and exit (lines 594-622) of BZ2_decompress        *)
(***************************************************************************)
\* The 64-bit total as an integer; the model keeps it below 2^31, so the
\* high word stays 0.
U32_TO_U64(hi, lo) == lo
U64_LO32(n) == n
U64_HI32(n) == 0

\* restore from the save area
RestoreLocals(sv, g, tin) ==
    [f \in DOMAIN InitLocals |->
        IF f \in SavedLocals THEN sv[f]
        ELSE IF f = "base" THEN g
        ELSE IF f = "total_in" THEN tin
        ELSE "BZ_OK"]

\* g is the value the block-scoped local base holds when the switch jumps
\* past its initialiser.
BZ2_decompress_entry(m, g) ==
    LET sv == IF m.s.state = "BZ_X_MAGIC_1" THEN InitSaveArea ELSE m.s.save
        tin == U32_TO_U64(m.strm.total_in_hi32, m.strm.total_in_lo32)
    IN [m EXCEPT !.s.save = sv,
                 !.loc = RestoreLocals(sv, g, tin),
                 !.pc = "BZ2_decompress"]

SaveMutDropI(lc) == [f \in SavedLocals |-> IF f = "i" THEN 0 ELSE lc[f]]
SaveLocals(lc) == [f \in SavedLocals |-> lc[f]]

save_state_and_return_op(m) ==
    [m EXCEPT !.s.save = SaveLocals(m.loc),
              !.strm.total_in_lo32 = U64_LO32(m.loc.total_in),
              !.strm.total_in_hi32 = U64_HI32(m.loc.total_in),
              !.pc = "returned"]

(***************************************************************************)
(* Stream magic and allocation (lines 195-216)                             *)
(***************************************************************************)
\* GET_UCHAR(lll, uc); if (uc != want) RETURN(err); then on to label next
ExpectMutAccept(m, want, next, err) == Goto(Take(m), next)
Expect(m, want, next, err) ==
    IF Val(m) # want THEN RETURN(Take(m), err) ELSE Goto(Take(m), next)

X_MAGIC_1(m) == Expect(m, BZ_HDR_B, "BZ_X_MAGIC_2", "BZ_DATA_ERROR_MAGIC")
X_MAGIC_2(m) == Expect(m, BZ_HDR_Z, "BZ_X_MAGIC_3", "BZ_DATA_ERROR_MAGIC")
X_MAGIC_3(m) == Expect(m, BZ_HDR_h, "BZ_X_MAGIC_4", "BZ_DATA_ERROR_MAGIC")

\* BZALLOC of the block buffers; ok1, ok2 say whether the allocator delivers
\* (tt, or ll16 and ll4).
Allocate(m, ok1, ok2) ==
    LET n == m.s.blockSize100k * BlockUnit IN
    IF m.s.smallDecompress
    THEN [m EXCEPT !.s.ll16Alloc = IF ok1 THEN n ELSE 0,
                   !.s.ll4Alloc = IF ok2 THEN Shr(1 + n, 1) ELSE 0,
                   !.hist.allocs = @ + 1]
    ELSE [m EXCEPT !.s.ttAlloc = IF ok1 THEN n ELSE 0,
                   !.hist.allocs = @ + 1]

LevelMutAcceptZero(v) == v < BZ_HDR_0 \/ v > BZ_HDR_0 + 9
LevelOutOfRange(v) == v < BZ_HDR_0 + 1 \/ v > BZ_HDR_0 + 9

X_MAGIC_4(m, ok1, ok2) ==
    LET m1 == [Take(m) EXCEPT !.s.blockSize100k = Val(m)] IN
    IF LevelOutOfRange(Val(m)) THEN RETURN(m1, "BZ_DATA_ERROR_MAGIC")
    ELSE LET m2 == Allocate([m1 EXCEPT !.s.blockSize100k = @ - BZ_HDR_0], ok1, ok2) IN
         IF m2.s.smallDecompress /\ (m2.s.ll16Alloc = 0 \/ m2.s.ll4Alloc = 0)
            THEN RETURN(m2, "BZ_MEM_ERROR")
         ELSE IF ~m2.s.smallDecompress /\ m2.s.ttAlloc = 0
            THEN RETURN(m2, "BZ_MEM_ERROR")
         ELSE Goto(AtBoundary(m2), "BZ_X_BLKHDR_1")

(***************************************************************************)
(* Block header (lines 218-260)                                            *)
(***************************************************************************)
BlkHdr1MutMagic(m) ==
    IF Val(m) = 23 THEN Goto(Take(m), "BZ_X_ENDHDR_2")
    ELSE IF Val(m) # 49 THEN RETURN(Take(m), "BZ_DATA_ERROR_MAGIC")
    ELSE Goto(Take(m), "BZ_X_BLKHDR_2")
X_BLKHDR_1(m) ==
    IF Val(m) = 23 THEN Goto(Take(m), "BZ_X_ENDHDR_2")
    ELSE IF Val(m) # 49 THEN RETURN(Take(m), "BZ_DATA_ERROR")
    ELSE Goto(Take(m), "BZ_X_BLKHDR_2")

X_BLKHDR_2(m) == Expect(m, 65, "BZ_X_BLKHDR_3", "BZ_DATA_ERROR")
X_BLKHDR_3(m) == Expect(m, 89, "BZ_X_BLKHDR_4", "BZ_DATA_ERROR")
X_BLKHDR_4(m) == Expect(m, 38, "BZ_X_BLKHDR_5", "BZ_DATA_ERROR")
X_BLKHDR_5(m) == Expect(m, 83, "BZ_X_BLKHDR_6", "BZ_DATA_ERROR")

X_BLKHDR_6(m) ==
    IF Val(m) # 89 THEN RETURN(Take(m), "BZ_DATA_ERROR")
    ELSE Goto([Take(m) EXCEPT !.s.currBlockNo = @ + 1, !.s.storedBlockCRC = Zero32],
              "BZ_X_BCRC_1")

\* x = (x << 8) | uc on a uint32_t
PushByteMutDrop(x, uc) == Shl32By8(x)
PushByte(x, uc) == <<Shl32By8(x)[1], Shl32By8(x)[2] + uc>>

\* the same on the int32_t origPtr: the low 32 bits, read as a signed value
PushPtr(x, uc) ==
    LET low == x % 16777216
        v == (low % 8388608) * 256 + uc
    IN IF low >= 8388608 THEN v - 2147483647 - 1 ELSE v

X_BCRC(m, next) ==
    Goto([Take(m) EXCEPT !.s.storedBlockCRC = PushByte(@, Val(m))], next)

X_BCRC_1(m) == X_BCRC(m, "BZ_X_BCRC_2")
X_BCRC_2(m) == X_BCRC(m, "BZ_X_BCRC_3")
X_BCRC_3(m) == X_BCRC(m, "BZ_X_BCRC_4")
X_BCRC_4(m) == X_BCRC(m, "BZ_X_RANDBIT")

X_RANDBIT(m) ==
    Goto([Take(m) EXCEPT !.s.blockRandomised = Val(m), !.s.origPtr = 0],
         "BZ_X_ORIGPTR_1")

X_ORIGPTR_1(m) ==
    Goto([Take(m) EXCEPT !.s.origPtr = PushPtr(@, Val(m))], "BZ_X_ORIGPTR_2")
X_ORIGPTR_2(m) ==
    Goto([Take(m) EXCEPT !.s.origPtr = PushPtr(@, Val(m))], "BZ_X_ORIGPTR_3")

X_ORIGPTR_3(m) ==
    LET m1 == [Take(m) EXCEPT !.s.origPtr = PushPtr(@, Val(m))] IN
    IF m1.s.origPtr < 0 THEN RETURN(m1, "BZ_DATA_ERROR")
    ELSE IF m1.s.origPtr > 10 + BlockUnit * m1.s.blockSize100k
        THEN RETURN(m1, "BZ_DATA_ERROR")
    ELSE Goto([m1 EXCEPT !.loc.i = 0], "BZ_X_MAPPING_1")

(***************************************************************************)
(* Stream trailer (lines 563-587)                                          *)
(***************************************************************************)
X_ENDHDR_2(m) == Expect(m, 114, "BZ_X_ENDHDR_3", "BZ_DATA_ERROR")
X_ENDHDR_3(m) == Expect(m, 69, "BZ_X_ENDHDR_4", "BZ_DATA_ERROR")
X_ENDHDR_4(m) == Expect(m, 56, "BZ_X_ENDHDR_5", "BZ_DATA_ERROR")
X_ENDHDR_5(m) == Expect(m, 80, "BZ_X_ENDHDR_6", "BZ_DATA_ERROR")

X_ENDHDR_6(m) ==
    IF Val(m) # 144 THEN RETURN(Take(m), "BZ_DATA_ERROR")
    ELSE Goto([Take(m) EXCEPT !.s.storedCombinedCRC = Zero32], "BZ_X_CCRC_1")

X_CCRC(m, next) ==
    Goto([Take(m) EXCEPT !.s.storedCombinedCRC = PushByte(@, Val(m))], next)

X_CCRC_1(m) == X_CCRC(m, "BZ_X_CCRC_2")
X_CCRC_2(m) == X_CCRC(m, "BZ_X_CCRC_3")
X_CCRC_3(m) == X_CCRC(m, "BZ_X_CCRC_4")

CcrcMutKeepState(m) ==
    RETURN([Take(m) EXCEPT !.s.storedCombinedCRC = PushByte(@, Val(m))], "BZ_STREAM_END")
X_CCRC_4(m) ==
    RETURN([Take(m) EXCEPT !.s.storedCombinedCRC = PushByte(@, Val(m)),
                           !.s.state = "BZ_X_IDLE"],
           "BZ_STREAM_END")

(***************************************************************************)
(* Mapping table (lines 262-280) and makeMaps_d (lines 26-35)              *)
(***************************************************************************)
\* The set of indices 0..255 at which a boolean array holds true.
TrueAt(a) == {k \in (DOMAIN a) \cap (0..255) : a[k] = TRUE}

\* The p-th smallest element of a finite set of integers, p = 0, 1, ...
Nth(S, p) == CHOOSE x \in S : Cardinality({y \in S : y < x}) = p

makeMapsMutStale(ds) ==
    LET S == TrueAt(ds.inUse)
        n == Cardinality(S)
    IN [ds EXCEPT !.nInUse = n,
                  !.seqToUnseq = [q \in (DOMAIN ds.seqToUnseq) \cup (0..(n - 1)) |->
                                     IF q \in DOMAIN ds.seqToUnseq THEN ds.seqToUnseq[q]
                                     ELSE Nth(S, q)]]
makeMaps_d(ds) ==
    LET S == TrueAt(ds.inUse)
        n == Cardinality(S)
    IN [ds EXCEPT !.nInUse = n,
                  !.seqToUnseq = [q \in (DOMAIN ds.seqToUnseq) \cup (0..(n - 1)) |->
                                     IF q < n THEN Nth(S, q) ELSE ds.seqToUnseq[q]]]

\* lines 278-283: makeMaps_d, the nInUse check, alphaSize, on to the selectors
EndMappingMutNoCheck(m) ==
    LET ds == makeMaps_d(m.s) IN
    Goto([m EXCEPT !.s = ds, !.loc.alphaSize = ds.nInUse + 2], "BZ_X_SELECTOR_1")
EndMapping(m) ==
    LET ds == makeMaps_d(m.s) IN
    IF ds.nInUse = 0 THEN RETURN([m EXCEPT !.s = ds], "BZ_DATA_ERROR")
    ELSE Goto([m EXCEPT !.s = ds, !.loc.alphaSize = ds.nInUse + 2], "BZ_X_SELECTOR_1")

\* The for loop of line 270 with i = i0: skip to the next present chunk.
MapScan(m, i0) ==
    LET P == {c \in i0..15 : Get(m.s.inUse16, c) = TRUE} IN
    IF P # {}
    THEN LET c == Nth(P, 0) IN
         Goto([m EXCEPT !.loc.i = c, !.loc.base = c * 16, !.loc.j = 0],
              "BZ_X_MAPPING_2")
    ELSE EndMapping([m EXCEPT !.loc.i = 16, !.loc.base = 0])

X_MAPPING_1(m) ==
    LET m1 == [Take(m) EXCEPT !.s.inUse16 = Put(@, m.loc.i, Val(m) = 1),
                              !.loc.i = @ + 1]
    IN IF m1.loc.i < 16 THEN Goto(m1, "BZ_X_MAPPING_1")
       ELSE MapScan([m1 EXCEPT !.s.inUse = Empty], 0)

X_MAPPING_2(m) ==
    LET m1 == IF Val(m) = 1
              THEN [Take(m) EXCEPT !.s.inUse = Put(@, m.loc.base + m.loc.j, TRUE)]
              ELSE Take(m)
        m2 == [m1 EXCEPT !.loc.j = @ + 1]
    IN IF m2.loc.j < 16 THEN Goto(m2, "BZ_X_MAPPING_2")
       ELSE MapScan(m2, m2.loc.i + 1)

(***************************************************************************)
(* Selectors (lines 282-316)                                               *)
(***************************************************************************)
X_SELECTOR_1(m) ==
    LET m1 == [Take(m) EXCEPT !.loc.nGroups = Val(m)] IN
    IF Val(m) < 2 \/ Val(m) > BZ_N_GROUPS THEN RETURN(m1, "BZ_DATA_ERROR")
    ELSE Goto(m1, "BZ_X_SELECTOR_2")

X_SELECTOR_2(m) ==
    LET m1 == [Take(m) EXCEPT !.loc.nSelectors = Val(m)] IN
    IF Val(m) < 1 THEN RETURN(m1, "BZ_DATA_ERROR")
    ELSE Goto([m1 EXCEPT !.loc.i = 0, !.loc.j = 0], "BZ_X_SELECTOR_3")

\* tmp = pos[v]; memmove(&pos[1], pos, v); pos[0] = tmp   (pos as a sequence)
MoveToFront(pos, v) ==
    <<pos[v + 1]>> \o SubSeq(pos, 1, v) \o SubSeq(pos, v + 2, Len(pos))

\* The loop of lines 311-317 for i in lo..hi-1, on und = [selector, pos]. (The
\* range is done half by half to keep the evaluation shallow; a value that
\* is no index of pos stops it, and EndSelectors tells what happens then.)
RECURSIVE UndoSelectorMtf(_, _, _, _)
UndoSelectorMtf(und, selectorMtf, lo, hi) ==
    IF lo >= hi \/ Get(selectorMtf, lo) >= Len(und.pos) THEN und
    ELSE IF hi - lo = 1
        THEN LET p2 == MoveToFront(und.pos, Get(selectorMtf, lo))
             IN [selector |-> Put(und.selector, lo, p2[1]), pos |-> p2]
    ELSE UndoSelectorMtf(UndoSelectorMtf(und, selectorMtf, lo, (lo + hi) \div 2),
                         selectorMtf, (lo + hi) \div 2, hi)

\* lines 301-320: clamp, undo the MTF values, on to the coding tables.  pos[]
\* is initialised up to nGroups only: a selectorMtf value of nGroups or more
\* reads an uninitialised cell or one outside pos[6].
EndSelectors(m) ==
    LET ns == IF m.loc.nSelectors > BZ_MAX_SELECTORS THEN BZ_MAX_SELECTORS
              ELSE m.loc.nSelectors
        pos0 == [v \in 1..m.loc.nGroups |-> v - 1]
        sel == UndoSelectorMtf([selector |-> m.s.selector, pos |-> pos0],
                               m.s.selectorMtf, 0, ns).selector
    IN IF \E k \in 0..(ns - 1) : Get(m.s.selectorMtf, k) >= m.loc.nGroups
       THEN Undefined(m)
       ELSE Goto([m EXCEPT !.loc.nSelectors = ns, !.loc.i = ns, !.s.selector = sel,
                           !.loc.t = 0],
                 "BZ_X_CODING_1")

\* Line 293: the unary code has as many 1 bits as there are groups.
SelectorMutNoCheck(j, nGroups) == FALSE
SelectorTooLong(j, nGroups) == j >= nGroups

StoredMutAll(i) == TRUE
Stored(i) == i < BZ_MAX_SELECTORS

X_SELECTOR_3(m) ==
    IF Val(m) = 0
    THEN LET m1 == IF Stored(m.loc.i)
                   THEN [Take(m) EXCEPT !.s.selectorMtf = Put(@, m.loc.i, m.loc.j)]
                   ELSE Take(m)
             m2 == [m1 EXCEPT !.loc.i = @ + 1]
         IN IF m2.loc.i < m2.loc.nSelectors
            THEN Goto([m2 EXCEPT !.loc.j = 0], "BZ_X_SELECTOR_3")
            ELSE EndSelectors(m2)
    ELSE LET m1 == [Take(m) EXCEPT !.loc.j = @ + 1] IN
         IF SelectorTooLong(m1.loc.j, m1.loc.nGroups) THEN RETURN(m1, "BZ_DATA_ERROR")
         ELSE Goto(m1, "BZ_X_SELECTOR_3")

(***************************************************************************)
(* BZ2_hbCreateDecodeTables                                                *)
(***************************************************************************)
\* perm: the symbols in order of code length, ties in symbol order
PermOrder(length, alphaSize) ==
    LET Before(a, b) == length[a] < length[b] \/ (length[a] = length[b] /\ a < b)
        Rank(a) == Cardinality({b \in 0..(alphaSize - 1) : Before(b, a)})
    IN [q \in 0..(alphaSize - 1) |-> CHOOSE a \in 0..(alphaSize - 1) : Rank(a) = q]

\* limit[i] = vec-1 with vec the running code value, for i = minLen..maxLen
RECURSIVE LimitFrom(_, _, _, _, _)
LimitFrom(cnt, i, maxLen, vec, acc) ==
    IF i > maxLen THEN acc
    ELSE LET v2 == vec + cnt[i] IN
         LimitFrom(cnt, i + 1, maxLen, 2 * v2, Put(acc, i, v2 - 1))

BZ2_hbCreateDecodeTables(ds, t, minLen, maxLen, alphaSize) ==
    LET length == ds.len[t]
        cnt == [i \in 0..BZ_MAX_CODE_LEN |->
                   Cardinality({a \in 0..(alphaSize - 1) : length[a] = i})]
        base0 == [i \in 0..(BZ_MAX_CODE_LEN - 1) |->
                   Cardinality({a \in 0..(alphaSize - 1) : length[a] < i})]
        limit1 == LimitFrom(cnt, minLen, maxLen, 0,
                            [i \in 0..(BZ_MAX_CODE_LEN - 1) |-> 0])
        base1 == [i \in 0..(BZ_MAX_CODE_LEN - 1) |->
                   IF i >= minLen + 1 /\ i <= maxLen
                   THEN 2 * (limit1[i - 1] + 1) - base0[i]
                   ELSE base0[i]]
        po == PermOrder(length, alphaSize)
        perm1 == [q \in (DOMAIN ds.perm[t]) \cup (0..(alphaSize - 1)) |->
                   IF q < alphaSize THEN po[q] ELSE ds.perm[t][q]]
    IN [ds EXCEPT !.limit[t] = limit1, !.base[t] = base1, !.perm[t] = perm1]

(***************************************************************************)
(* GET_MTF_VAL (lines 71-99)                                               *)
(***************************************************************************)
\* Lines 73-86: pick the group, then reach the fetch at label1.
GroupEndMutNoCheck(groupNo, nSelectors) == FALSE
GroupEnd(groupNo, nSelectors) == groupNo >= nSelectors

MtfPrelude(m, label1) ==
    LET m1 ==
          IF m.loc.groupPos = 0
          THEN LET g == m.loc.groupNo + 1
                   gs == Get(m.s.selector, g)
               IN [m EXCEPT !.loc.groupNo = g,
                            !.loc.groupPos = BZ_G_SIZE,
                            !.loc.gSel = gs,
                            !.loc.gMinlen = Get(m.s.minLens, gs),
                            !.loc.gLimit = gs, !.loc.gPerm = gs, !.loc.gBase = gs]
          ELSE m
    IN IF m.loc.groupPos = 0 /\ GroupEnd(m.loc.groupNo + 1, m.loc.nSelectors)
       THEN RETURN([m EXCEPT !.loc.groupNo = @ + 1], "BZ_DATA_ERROR")
       ELSE Goto([m1 EXCEPT !.loc.groupPos = @ - 1, !.loc.zn = m1.loc.gMinlen],
                 label1)

\* Lines 95-98: the range check and lval = gPerm[zvec - gBase[zn]].
MtfSymbol(m) ==
    LET d == m.loc.zvec - Get(m.s.base[m.loc.gBase], m.loc.zn) IN
    IF d < 0 \/ d >= BZ_MAX_ALPHA_SIZE THEN RETURN(m, "BZ_DATA_ERROR")
    ELSE [m EXCEPT !.loc.nextSym = Get(m.s.perm[m.loc.gPerm], d),
                   !.hist.syms = @ + 1,
                   !.hist.uninit = @ \/ d \notin DOMAIN m.s.perm[m.loc.gPerm]]

\* Lines 87-94 from the head of the while loop.  A record [m, done]: done
\* says the symbol is complete (nextSym assigned), else m has returned or
\* waits at label2.
MtfWhileMutLoose(m, label2) ==
    IF m.loc.zn > 20 THEN [m |-> RETURN(m, "BZ_DATA_ERROR"), done |-> FALSE]
    ELSE IF m.loc.zvec <= Get(m.s.limit[m.loc.gLimit], m.loc.zn) + 1
    THEN LET m1 == MtfSymbol(m) IN
         [m |-> m1, done |-> m1.pc = "BZ2_decompress"]
    ELSE [m |-> Goto([m EXCEPT !.loc.zn = @ + 1], label2), done |-> FALSE]
MtfWhileMutLate(m, label2) ==
    IF m.loc.zn > 21 THEN [m |-> RETURN(m, "BZ_DATA_ERROR"), done |-> FALSE]
    ELSE IF m.loc.zvec <= Get(m.s.limit[m.loc.gLimit], m.loc.zn)
    THEN LET m1 == MtfSymbol(m) IN
         [m |-> m1, done |-> m1.pc = "BZ2_decompress"]
    ELSE [m |-> Goto([m EXCEPT !.loc.zn = @ + 1], label2), done |-> FALSE]
MtfWhile(m, label2) ==
    IF m.loc.zn > 20 THEN [m |-> RETURN(m, "BZ_DATA_ERROR"), done |-> FALSE]
    ELSE IF m.loc.zvec <= Get(m.s.limit[m.loc.gLimit], m.loc.zn)
    THEN LET m1 == MtfSymbol(m) IN
         [m |-> m1, done |-> m1.pc = "BZ2_decompress"]
    ELSE [m |-> Goto([m EXCEPT !.loc.zn = @ + 1], label2), done |-> FALSE]

\* zvec = (zvec << 1) | zj on the int32_t zvec: the low 32 bits, read as a
\* signed value.
PushBit(x, zj) ==
    LET low == x % 1073741824
        v == 2 * low + zj
    IN IF (x \div 1073741824) % 2 = 1 THEN v - 2147483647 - 1 ELSE v

\* The fetch at label1 delivered zvec; the fetch at label2 delivered zj.
MtfFirst(m, label2) == MtfWhile([Take(m) EXCEPT !.loc.zvec = Val(m)], label2)
MtfNext(m, label2) ==
    MtfWhile([Take(m) EXCEPT !.loc.zj = Val(m),
                             !.loc.zvec = PushBit(@, Val(m))], label2)

(***************************************************************************)
(* The move-to-front structure (lines 361-373, 422-456)                    *)
(***************************************************************************)
MtfInit(ds) ==
    LET lo == MTFA_SIZE - 256 IN
    [ds EXCEPT !.mtfa = [k \in (DOMAIN ds.mtfa) \cup (lo..(MTFA_SIZE - 1)) |->
                            IF k >= lo THEN k - lo ELSE ds.mtfa[k]],
               !.mtfbase = [ii \in (DOMAIN ds.mtfbase) \cup (0..(256 \div MTFL_SIZE - 1)) |->
                            IF ii < 256 \div MTFL_SIZE THEN lo + ii * MTFL_SIZE
                            ELSE ds.mtfbase[ii]]]

\* memmove(&a[pp+1], &a[pp], n)
MemMoveUpMutNone(a, pp, n) == a
MemMoveUp(a, pp, n) == [k \in (pp + 1)..(pp + n) |-> Get(a, k - 1)] @@ a

\* for (; lno > 0; lno--) mtfa[--mtfbase[lno]] = mtfa[mtfbase[lno-1] + MTFL_SIZE - 1]
RECURSIVE MtfPull(_, _)
MtfPull(ds, lno) ==
    IF lno <= 0 THEN ds
    ELSE LET b == Get(ds.mtfbase, lno) - 1 IN
         MtfPull([ds EXCEPT !.mtfbase = Put(@, lno, b),
                            !.mtfa = Put(@, b, Get(ds.mtfa,
                                        Get(ds.mtfbase, lno - 1) + MTFL_SIZE - 1))],
                 lno - 1)

\* The compaction of lines 446-452. The inner loop, from jj down to 0, of
\* block ii: mtfa[kk--] = mtfa[mtfbase[ii] + jj], with kk the cell to write.
RECURSIVE MtfCompactBlock(_, _, _, _)
MtfCompactBlock(mtfa, pp, jj, kk) ==
    IF jj < 0 THEN mtfa
    ELSE MtfCompactBlock(Put(mtfa, kk, Get(mtfa, pp + jj)), pp, jj - 1, kk - 1)

\* The outer loop, from block ii down to block 0.
MtfCompactMutSkip(ds, ii) == ds
RECURSIVE MtfCompact(_, _)
MtfCompact(ds, ii) ==
    IF ii < 0 THEN ds
    ELSE LET top == MTFA_SIZE - 1 - MTFL_SIZE * (256 \div MTFL_SIZE - 1 - ii)
             d1 == [ds EXCEPT !.mtfa = MtfCompactBlock(@, Get(ds.mtfbase, ii),
                                                       MTFL_SIZE - 1, top),
                              !.mtfbase = Put(@, ii, top - MTFL_SIZE + 1)]
         IN MtfCompact(d1, ii - 1)

\* uc = MTF(nn): a record [ds, uc]
MtfAccess(ds, nn) ==
    IF nn < MTFL_SIZE
    THEN LET pp == Get(ds.mtfbase, 0)
             uc == Get(ds.mtfa, pp + nn)
         IN [ds |-> [ds EXCEPT !.mtfa = Put(MemMoveUp(@, pp, nn), pp, uc)],
             uc |-> uc]
    ELSE LET lno == nn \div MTFL_SIZE
             off == nn % MTFL_SIZE
             pp == Get(ds.mtfbase, lno)
             uc == Get(ds.mtfa, pp + off)
             d1 == [ds EXCEPT !.mtfa = MemMoveUp(@, pp, off),
                              !.mtfbase = Put(@, lno, pp + 1)]
             d2 == MtfPull(d1, lno)
             b0 == Get(d2.mtfbase, 0) - 1
             d3 == [d2 EXCEPT !.mtfbase = Put(@, 0, b0), !.mtfa = Put(@, b0, uc)]
         IN [ds |-> IF b0 = 0 THEN MtfCompact(d3, 256 \div MTFL_SIZE - 1) ELSE d3, uc |-> uc]

(***************************************************************************)
(* Bitwise or on the cells of tt (below 2^28)                              *)
(***************************************************************************)
RECURSIVE OrBits(_, _, _)
OrBits(a, b, n) ==
    IF n = 0 THEN 0
    ELSE (IF a % 2 = 1 \/ b % 2 = 1 THEN 1 ELSE 0)
         + 2 * OrBits(a \div 2, b \div 2, n - 1)

Or32(a, b) == OrBits(a, b, 31)

(***************************************************************************)
(* The packed 20-bit cells of small mode (SET_LL, GET_LL) and the          *)
(* randomisation and source-byte macros                                    *)
(***************************************************************************)
SET_LL4(ll4, i, n) ==
    LET c == Get(ll4, Shr(i, 1)) IN
    IF i % 2 = 0 THEN Put(ll4, Shr(i, 1), (c - (c % 16)) + n)
    ELSE Put(ll4, Shr(i, 1), (c % 16) + 16 * n)

GET_LL4(ll4, i) == IF i % 2 = 0 THEN Get(ll4, Shr(i, 1)) % 16
                   ELSE Shr(Get(ll4, Shr(i, 1)), 4) % 16

SET_LL(ds, i, n) ==
    [ds EXCEPT !.ll16 = Put(@, i, Low(n, 16)),
               !.ll4 = SET_LL4(@, i, Shr(n, 16))]

GET_LL(ds, i) == Get(ds.ll16, i) + Pow2(16) * GET_LL4(ds.ll4, i)

\* The head of the table BZ2_rNums.
BZ2_rNums == <<619, 720, 127, 481, 931, 816, 813, 233, 566, 247>>

BZ_RAND_INIT_MASK(ds) == [ds EXCEPT !.rNToGo = 0, !.rTPos = 0]

BZ_RAND_UPD_MASK(ds) ==
    LET d1 == IF ds.rNToGo = 0
              THEN [ds EXCEPT !.rNToGo = BZ2_rNums[ds.rTPos + 1],
                              !.rTPos = IF ds.rTPos + 1 = 512 THEN 0 ELSE ds.rTPos + 1]
              ELSE ds
    IN [d1 EXCEPT !.rNToGo = @ - 1]

BZ_RAND_MASK(ds) == IF ds.rNToGo = 1 THEN 1 ELSE 0

\* The binary search of cftab for the byte whose range holds indx.
RECURSIVE IndexSearch(_, _, _, _)
IndexSearch(indx, cftab, nb, na) ==
    LET mid == Shr(nb + na, 1)
        nb2 == IF indx >= Get(cftab, mid) THEN mid ELSE nb
        na2 == IF indx >= Get(cftab, mid) THEN na ELSE mid
    IN IF na2 - nb2 = 1 THEN nb2 ELSE IndexSearch(indx, cftab, nb2, na2)

BZ2_indexIntoF(indx, cftab) == IndexSearch(indx, cftab, 0, 256)

\* BZ_GET_FAST / BZ_GET_SMALL: a record [ds, c] with c the byte fetched
BZ_GET_FAST(ds) ==
    LET w == Get(ds.tt, ds.tPos) IN
    [ds |-> [ds EXCEPT !.tPos = Shr(w, 8)], c |-> w % 256]

BZ_GET_SMALL(ds) ==
    [ds |-> [ds EXCEPT !.tPos = GET_LL(ds, ds.tPos)],
     c |-> BZ2_indexIntoF(ds.tPos, ds.cftab)]

BZ_GET(ds) == IF ds.smallDecompress THEN BZ_GET_SMALL(ds) ELSE BZ_GET_FAST(ds)

(***************************************************************************)
(* End of block: sanity checks and inversion (lines 469-559)               *)
(***************************************************************************)
\* cftab[0] = 0; cftab[i] = cftab[i-1] + unzftab[i-1]
RECURSIVE SumOver(_, _)
SumOver(f, S) ==
    IF S = {} THEN 0
    ELSE LET x == CHOOSE y \in S : TRUE IN f[x] + SumOver(f, S \ {x})

MakeCftabMutShift(unzftab) ==
    [i \in 0..256 |-> SumOver(unzftab, {k \in DOMAIN unzftab : k <= i})]
MakeCftab(unzftab) ==
    [i \in 0..256 |-> SumOver(unzftab, {k \in DOMAIN unzftab : k < i})]

\* compute the T^(-1) vector, fast mode (lines 541-545)
FastInvertMutNoIndex(ds, i, nblock) == ds
RECURSIVE FastInvert(_, _, _)
FastInvert(ds, i, nblock) ==
    IF i >= nblock THEN ds
    ELSE LET uc == Get(ds.tt, i) % 256
             at == Get(ds.cftab, uc)
         IN FastInvert([ds EXCEPT !.tt = Put(@, at, Or32(Get(ds.tt, at), i * 256)),
                                  !.cftab = Put(@, uc, at + 1)],
                       i + 1, nblock)

\* compute the T vector, small mode (lines 511-515)
SmallTMutSkip(ds, i, nblock) == ds
RECURSIVE SmallT(_, _, _)
SmallT(ds, i, nblock) ==
    IF i >= nblock THEN ds
    ELSE LET uc == Get(ds.ll16, i) % 256
             d1 == SET_LL(ds, i, Get(ds.cftabCopy, uc))
         IN SmallT([d1 EXCEPT !.cftabCopy = Put(@, uc, Get(ds.cftabCopy, uc) + 1)],
                   i + 1, nblock)

\* T^(-1) by pointer reversal (lines 518-526), one pass of the do-while loop
\* a call: a record [ds, i, j, n], n the passes made.
ReverseMutOnePass(ds, i, j) == [ds |-> SET_LL(ds, j, i), i |-> j, j |-> GET_LL(ds, j), n |-> 1]
RECURSIVE Reverse(_, _, _)
Reverse(ds, i, j) ==
    LET tmp == GET_LL(ds, j)
        d1 == SET_LL(ds, j, i)
    IN IF j # ds.origPtr
       THEN LET r == Reverse(d1, j, tmp) IN [r EXCEPT !.n = @ + 1]
       ELSE [ds |-> d1, i |-> j, j |-> tmp, n |-> 1]

\* s->k0 and nblock_used after the first source byte (lines 528-536, 547-555)
FirstByteMutNone(ds) == ds
FirstByte(ds) ==
    LET d0 == [ds EXCEPT !.nblock_used = 0] IN
    IF d0.blockRandomised # 0
    THEN LET g == BZ_GET(BZ_RAND_INIT_MASK(d0))
             d1 == BZ_RAND_UPD_MASK([g.ds EXCEPT !.nblock_used = @ + 1])
         IN [d1 EXCEPT !.k0 = Xor8(g.c, BZ_RAND_MASK(d1))]
    ELSE LET g == BZ_GET(d0) IN [g.ds EXCEPT !.k0 = g.c, !.nblock_used = @ + 1]

OrigPtrMutNoCheck(origPtr, nblock) == FALSE
OrigPtrBad(origPtr, nblock) == origPtr < 0 \/ origPtr >= nblock

EndBlock(m) ==
    LET nblock == m.loc.nblock
        uz == m.s.unzftab
        badU == {i \in 0..255 : Get(uz, i) < 0 \/ Get(uz, i) > nblock}
        cf == MakeCftab(uz)
        badC == {i \in 0..256 : cf[i] < 0 \/ cf[i] > nblock}
        badM == {i \in 1..256 : cf[i - 1] > cf[i]}
    IN
    IF OrigPtrBad(m.s.origPtr, nblock) THEN RETURN(m, "BZ_DATA_ERROR")
    ELSE IF badU # {} THEN RETURN([m EXCEPT !.loc.i = Nth(badU, 0)], "BZ_DATA_ERROR")
    ELSE IF badC # {}
        THEN RETURN([m EXCEPT !.loc.i = Nth(badC, 0), !.s.cftab = cf], "BZ_DATA_ERROR")
    ELSE IF badM # {}
        THEN RETURN([m EXCEPT !.loc.i = Nth(badM, 0), !.s.cftab = cf], "BZ_DATA_ERROR")
    ELSE
      LET d0 == [m.s EXCEPT !.cftab = cf, !.state_out_len = 0, !.state_out_ch = 0,
                            !.calculatedBlockCRC = Ones32,
                            !.state = "BZ_X_OUTPUT"]
      IN IF d0.smallDecompress
         THEN LET d1 == SmallT([d0 EXCEPT !.cftabCopy =
                                   [k \in (DOMAIN d0.cftabCopy) \cup (0..255) |->
                                       IF k <= 255 THEN cf[k] ELSE d0.cftabCopy[k]]],
                               0, nblock)
                  r == Reverse(d1, d1.origPtr, GET_LL(d1, d1.origPtr))
                  d2 == FirstByte([r.ds EXCEPT !.tPos = r.ds.origPtr])
              IN RETURN([m EXCEPT !.s = d2, !.loc.i = r.i, !.loc.j = r.j,
                                  !.hist.rev = r.n], "BZ_OK")
         ELSE LET d1 == FastInvert(d0, 0, nblock)
                  d2 == FirstByte([d1 EXCEPT !.tPos = Shr(Get(d1.tt, d1.origPtr), 8)])
              IN RETURN([m EXCEPT !.s = d2, !.loc.i = nblock], "BZ_OK")

(***************************************************************************)
(* The MTF value stream (lines 352-467)                                    *)
(***************************************************************************)
\* The block array of the mode in use.
BlockArray(ds) == IF ds.smallDecompress THEN ds.ll16 ELSE ds.tt

\* The RUN accumulation step (lines 393-397), then the next symbol fetch.
RunGuardMutLate(N) == N >= 2 * RunLimit
RunGuardMutEarly(N) == N >= RunLimit \div 8
RunGuard(N) == N >= RunLimit

RunStepMutNoDouble(m) ==
    IF RunGuard(m.loc.N) THEN RETURN(m, "BZ_DATA_ERROR")
    ELSE LET add == IF m.loc.nextSym = BZ_RUNA THEN m.loc.N
                    ELSE IF m.loc.nextSym = BZ_RUNB THEN 2 * m.loc.N ELSE 0
         IN MtfPrelude([m EXCEPT !.loc.es = @ + add,
                                 !.hist.run = Append(@, m.loc.nextSym)],
                       "BZ_X_MTF_3")

RunStep(m) ==
    IF RunGuard(m.loc.N) THEN RETURN(m, "BZ_DATA_ERROR")
    ELSE LET add == IF m.loc.nextSym = BZ_RUNA THEN m.loc.N
                    ELSE IF m.loc.nextSym = BZ_RUNB THEN 2 * m.loc.N ELSE 0
         IN MtfPrelude([m EXCEPT !.loc.es = @ + add, !.loc.N = 2 * @,
                                 !.hist.run = Append(@, m.loc.nextSym)],
                       "BZ_X_MTF_3")

\* How many stores the test nblock >= nblockMAX (lines 406, 411, 420) lets
\* through before it returns BZ_DATA_ERROR.
RoomMutLate(nblock, nblockMAX) == nblockMAX - nblock + 1
Room(nblock, nblockMAX) == IF nblock >= nblockMAX THEN 0 ELSE nblockMAX - nblock

\* uc = MTF(nextSym-1), the counts and the store of one literal (lines 420-464)
LiteralMutNoCount(m) ==
    IF Room(m.loc.nblock, m.loc.nblockMAX) = 0 THEN RETURN(m, "BZ_DATA_ERROR")
    ELSE LET a == MtfAccess(m.s, m.loc.nextSym - 1)
             b == Get(a.ds.seqToUnseq, a.uc)
             d2 == IF a.ds.smallDecompress
                   THEN [a.ds EXCEPT !.ll16 = Put(@, m.loc.nblock, b)]
                   ELSE [a.ds EXCEPT !.tt = Put(@, m.loc.nblock, b)]
         IN MtfPrelude([m EXCEPT !.s = d2, !.loc.nblock = @ + 1], "BZ_X_MTF_5")

Literal(m) ==
    IF Room(m.loc.nblock, m.loc.nblockMAX) = 0 THEN RETURN(m, "BZ_DATA_ERROR")
    ELSE LET a == MtfAccess(m.s, m.loc.nextSym - 1)
             b == Get(a.ds.seqToUnseq, a.uc)
             d1 == [a.ds EXCEPT !.unzftab = Put(@, b, Get(a.ds.unzftab, b) + 1)]
             d2 == IF d1.smallDecompress
                   THEN [d1 EXCEPT !.ll16 = Put(@, m.loc.nblock, b)]
                   ELSE [d1 EXCEPT !.tt = Put(@, m.loc.nblock, b)]
         IN MtfPrelude([m EXCEPT !.s = d2, !.loc.nblock = @ + 1], "BZ_X_MTF_5")

\* The head of the while loop of line 378 with nextSym decoded.
MainLoop(m) ==
    IF m.loc.nextSym = m.loc.EOB THEN EndBlock(m)
    ELSE IF m.loc.nextSym = BZ_RUNA \/ m.loc.nextSym = BZ_RUNB
        THEN RunStep([m EXCEPT !.loc.es = -1, !.loc.N = 1, !.hist.run = <<>>])
    ELSE Literal(m)

\* The end of a run (lines 401-416): es copies of the front byte.
StoreRun(m) ==
    LET es == m.loc.es + 1
        uc == Get(m.s.seqToUnseq, Get(m.s.mtfa, Get(m.s.mtfbase, 0)))
        cnt == Min(es, Room(m.loc.nblock, m.loc.nblockMAX))
        cells == m.loc.nblock..(m.loc.nblock + cnt - 1)
        Fill(a) == [k \in (DOMAIN a) \cup cells |-> IF k \in cells THEN uc ELSE a[k]]
        d1 == [m.s EXCEPT !.unzftab = Put(@, uc, Get(m.s.unzftab, uc) + es)]
        d2 == IF d1.smallDecompress THEN [d1 EXCEPT !.ll16 = Fill(@)]
              ELSE [d1 EXCEPT !.tt = Fill(@)]
        m1 == [m EXCEPT !.s = d2, !.loc.es = es - cnt, !.loc.nblock = @ + cnt]
    IN IF es > cnt THEN RETURN(m1, "BZ_DATA_ERROR") ELSE MainLoop(m1)

\* The do-while condition of line 399.
RunCond(m) ==
    IF m.loc.nextSym = BZ_RUNA \/ m.loc.nextSym = BZ_RUNB THEN RunStep(m)
    ELSE StoreRun(m)

\* Lines 333-376: build the decoding tables, reset the block, first symbol.
RECURSIVE CreateTables(_, _, _, _)
CreateTables(ds, t, nGroups, alphaSize) ==
    IF t >= nGroups THEN ds
    ELSE LET L == {Get(ds.len[t], i) : i \in 0..(alphaSize - 1)}
             minLen == Nth(L \cup {32}, 0)
             maxLen == Nth(L \cup {0}, Cardinality(L \cup {0}) - 1)
             d1 == BZ2_hbCreateDecodeTables(ds, t, minLen, maxLen, alphaSize)
         IN CreateTables([d1 EXCEPT !.minLens = Put(@, t, minLen)],
                         t + 1, nGroups, alphaSize)

StartMtf(m) ==
    LET d1 == CreateTables(m.s, 0, m.loc.nGroups, m.loc.alphaSize)
        d2 == MtfInit([d1 EXCEPT !.unzftab = Empty])
    IN MtfPrelude([m EXCEPT !.s = d2,
                            !.loc.t = m.loc.nGroups,
                            !.loc.i = m.loc.alphaSize,
                            !.loc.EOB = d2.nInUse + 1,
                            !.loc.nblockMAX = BlockUnit * d2.blockSize100k,
                            !.loc.groupNo = -1,
                            !.loc.groupPos = 0,
                            !.loc.nblock = 0,
                            !.hist.syms = 0],
                  "BZ_X_MTF_1")

(***************************************************************************)
(* Coding tables (lines 318-331)                                           *)
(***************************************************************************)
LenMutWide(curr) == curr < 0 \/ curr > 21
LenOutOfRange(curr) == curr < 1 \/ curr > 20

\* The head of the while loop of line 322.
CodingHead(m) ==
    IF LenOutOfRange(m.loc.curr) THEN RETURN(m, "BZ_DATA_ERROR")
    ELSE Goto(m, "BZ_X_CODING_2")

X_CODING_1(m) == CodingHead([Take(m) EXCEPT !.loc.curr = Val(m), !.loc.i = 0])

X_CODING_2(m) ==
    IF Val(m) # 0 THEN Goto(Take(m), "BZ_X_CODING_3")
    ELSE LET m1 == [Take(m) EXCEPT !.s.len[m.loc.t] = Put(@, m.loc.i, m.loc.curr),
                                   !.loc.i = @ + 1]
         IN IF m1.loc.i < m1.loc.alphaSize THEN CodingHead(m1)
            ELSE LET m2 == [m1 EXCEPT !.loc.t = @ + 1] IN
                 IF m2.loc.t < m2.loc.nGroups THEN Goto(m2, "BZ_X_CODING_1")
                 ELSE StartMtf(m2)

X_CODING_3(m) ==
    CodingHead([Take(m) EXCEPT !.loc.curr = IF Val(m) = 0 THEN @ + 1 ELSE @ - 1])

(***************************************************************************)
(* The six fetches of the three GET_MTF_VAL sites                          *)
(***************************************************************************)
X_MTF_1(m) ==
    LET r == MtfFirst(m, "BZ_X_MTF_2") IN IF r.done THEN MainLoop(r.m) ELSE r.m
X_MTF_2(m) ==
    LET r == MtfNext(m, "BZ_X_MTF_2") IN IF r.done THEN MainLoop(r.m) ELSE r.m
X_MTF_3(m) ==
    LET r == MtfFirst(m, "BZ_X_MTF_4") IN IF r.done THEN RunCond(r.m) ELSE r.m
X_MTF_4(m) ==
    LET r == MtfNext(m, "BZ_X_MTF_4") IN IF r.done THEN RunCond(r.m) ELSE r.m
X_MTF_5(m) ==
    LET r == MtfFirst(m, "BZ_X_MTF_6") IN IF r.done THEN MainLoop(r.m) ELSE r.m
X_MTF_6(m) ==
    LET r == MtfNext(m, "BZ_X_MTF_6") IN IF r.done THEN MainLoop(r.m) ELSE r.m

(***************************************************************************)
(* CRC-32/BZIP2 and the output producer driven by bzDecompress             *)
(***************************************************************************)
\* the polynomial 0x04C11DB7
CrcPoly == <<1217, 7607>>

RECURSIVE CrcShift(_, _)
CrcShift(c, n) ==
    IF n = 0 THEN c
    ELSE CrcShift(IF c[1] >= H16 \div 2 THEN Xor32(Shl32By1(c), CrcPoly)
                  ELSE Shl32By1(c),
                  n - 1)

BZ2_crc32Table(x) == CrcShift(<<x * 256, 0>>, 8)

BZ_UPDATE_CRC(crc, cha) ==
    Xor32(Shl32By8(crc), BZ2_crc32Table(Xor8(crc[1] \div 256, cha)))

\* The next source byte with the randomisation mask applied: [ds, c]
NextSource(ds) ==
    LET g == BZ_GET(ds)
        d1 == [g.ds EXCEPT !.nblock_used = @ + 1]
    IN IF ds.blockRandomised # 0
       THEN LET d2 == BZ_RAND_UPD_MASK(d1) IN
            [ds |-> d2, c |-> Xor8(g.c, BZ_RAND_MASK(d2))]
       ELSE [ds |-> d1, c |-> g.c]

\* From a run of n equal bytes: look at the next source byte.
RECURSIVE Extend(_, _)
Extend(ds, n) ==
    LET g == NextSource([ds EXCEPT !.state_out_len = n]) IN
    IF g.ds.nblock_used = ds.save.nblock + 1 THEN g.ds
    ELSE IF g.c # ds.k0 THEN [g.ds EXCEPT !.k0 = g.c]
    ELSE IF n < 3 THEN Extend(g.ds, n + 1)
    ELSE LET g4 == NextSource(g.ds)
             g5 == NextSource([g4.ds EXCEPT !.state_out_len = g4.c + 4])
         IN [g5.ds EXCEPT !.k0 = g5.c]

\* Emit the pending run: state_out_len copies of state_out_ch.
RECURSIVE Drain(_, _)
Drain(ds, out) ==
    IF ds.state_out_len = 0 THEN [ds |-> ds, out |-> out]
    ELSE Drain([ds EXCEPT !.state_out_len = @ - 1,
                          !.calculatedBlockCRC = BZ_UPDATE_CRC(@, ds.state_out_ch)],
               Append(out, ds.state_out_ch))

\* The producer with room for the whole block in the output buffer:
\* a record [ds, out, corrupt].
RECURSIVE unRLE_obuf_to_output(_, _)
unRLE_obuf_to_output(ds, out) ==
    LET e == Drain(ds, out) IN
    IF e.ds.nblock_used = e.ds.save.nblock + 1
        THEN [ds |-> e.ds, out |-> e.out, corrupt |-> FALSE]
    ELSE IF e.ds.nblock_used > e.ds.save.nblock + 1
        THEN [ds |-> e.ds, out |-> e.out, corrupt |-> TRUE]
    ELSE unRLE_obuf_to_output(Extend([e.ds EXCEPT !.state_out_ch = e.ds.k0], 1), e.out)

\* combined = ((combined << 1) | (combined >> 31)) ^ blockCRC
CombineMutNoRotate(combined, blockCRC) == Xor32(combined, blockCRC)
CombineCRC(combined, blockCRC) == Xor32(RotL32By1(combined), blockCRC)

\* Back in the caller with result r.
ToCaller(m, r) ==
    [m EXCEPT !.pc = "caller", !.ret = r,
              !.hist.err = IF @ = "none" /\ r \in ErrorCodes THEN r ELSE @,
              !.hist.ends = IF r = "BZ_OK" THEN @ ELSE Min(@ + 1, 2)]

\* calculatedBlockCRC != storedBlockCRC
CrcCheckMutSkip(a, b) == FALSE
BlockCrcBad(a, b) == a # b

\* bzDecompress with state = BZ_X_OUTPUT
bzDecompress_output_op(m) ==
    LET r == unRLE_obuf_to_output(m.s, m.hist.out)
        crc == Not32(r.ds.calculatedBlockCRC)
        m1 == [m EXCEPT !.s = r.ds, !.hist.out = r.out]
    IN IF r.corrupt THEN ToCaller(m1, "BZ_DATA_ERROR")
       ELSE IF BlockCrcBad(crc, r.ds.storedBlockCRC)
           THEN ToCaller([m1 EXCEPT !.s.calculatedBlockCRC = crc], "BZ_DATA_ERROR")
       ELSE AtBoundary([m1 EXCEPT !.s.calculatedBlockCRC = crc,
                                  !.s.calculatedCombinedCRC = CombineCRC(@, crc),
                                  !.s.state = "BZ_X_BLKHDR_1",
                                  !.hist.crcs = Append(@, crc)])

\* bzDecompress after BZ2_decompress has returned r
CombinedCrcBad(a, b) == a # b

bzDecompress_ret_op(m) ==
    LET r == m.loc.retVal IN
    IF r = "BZ_STREAM_END"
    THEN IF CombinedCrcBad(m.s.calculatedCombinedCRC, m.s.storedCombinedCRC)
         THEN ToCaller(m, "BZ_DATA_ERROR")
         ELSE ToCaller(m, r)
    ELSE IF m.s.state # "BZ_X_OUTPUT" THEN ToCaller(m, r)
    ELSE [m EXCEPT !.pc = "bzDecompress"]

(***************************************************************************)
(* The caller                                                              *)
(***************************************************************************)
\* The caller makes k more bytes of the file available and calls.
CallOp(m, k) ==
    [m EXCEPT !.strm.avail_in = @ + k, !.hist.fed = @ + k, !.pc = "bzDecompress"]

(***************************************************************************)
(* The files the caller decodes                                            *)
(***************************************************************************)
\* bzip2 -1 of the empty file, of the five bytes 61 61 68 61 10 (the byte
\* 68 is member 8 of its chunk of the mapping table), and a stream of two
\* blocks holding 61 and 62 62.
StreamEmpty == <<66, 90, 104, 49, 23, 114, 69, 56, 80, 144, 0, 0, 0, 0>>

StreamMain ==
    <<66, 90, 104, 49, 49, 65, 89, 38, 83, 89, 175, 204, 248, 210, 0, 0, 1,
      33, 0, 64, 0, 32, 64, 32, 0, 48, 204, 12, 122, 152, 78, 46, 228, 138,
      112, 161, 33, 95, 153, 241, 164>>

StreamTwo ==
    <<66, 90, 104, 49, 49, 65, 89, 38, 83, 89, 25, 147, 155, 107, 0, 0, 0, 1,
      0, 32, 0, 32, 0, 33, 24, 70, 134, 40, 43, 36, 202, 107, 51, 111, 20, 67,
      192, 0, 0, 16, 32, 2, 0, 4, 0, 4, 35, 8, 216, 93, 201, 20, 225, 66, 66,
      161, 126, 83, 32>>

\* How many leading bytes of StreamMain (the stream header, then the block
\* header) and how many bytes from its end-of-stream magic on are damaged in
\* turn, and how many bytes may follow the end of a stream.
HeadCorrupt == 10
TailCorrupt == 2
TrailLen == 2

Damage(str, q, d) == [k \in 1..Len(str) |-> IF k = q THEN (str[k] + d) % 256 ELSE str[k]]

Deltas == {1, 255}

Damaged ==
    {Damage(StreamMain, q, d) : q \in 1..HeadCorrupt, d \in Deltas}
    \cup {Damage(StreamMain, q, 1) :
            q \in (Len(StreamMain) - 9)..(Len(StreamMain) - 10 + TailCorrupt)}
    \cup {Damage(StreamEmpty, q, d) : q \in 1..Len(StreamEmpty), d \in Deltas}

Trailing == {StreamEmpty \o [k \in 1..n |-> BZ_HDR_B] : n \in 1..TrailLen}

Intact == {StreamEmpty, StreamMain, StreamTwo}

\* StreamMain up to the end of its block, the block CRC field damaged.
BlockCrcDamaged == Damage(SubSeq(StreamMain, 1, 31), 11, 1)

\* A block of the one byte value 0x61 whose MTF values are 13 RUNB, 4 RUNA
\* and EOB: a run of 139262 bytes in a block of 100000; the file ends with
\* the last bit of EOB.
RunOverflows ==
    <<66, 90, 104, 49, 49, 65, 89, 38, 83, 89, 0, 0, 0, 0, 0, 0, 0, 1, 0, 32,
      0, 32, 0, 32, 160, 40, 170, 170, 170, 131>>

\* The head of StreamMain up to the last bit of origPtr, with bit 18 of
\* origPtr set: 262146.
OrigPtrHuge == Damage(SubSeq(StreamMain, 1, 18), 15, 2)

\* A block whose first MTF value is EOB: nblock = 0, origPtr = 0.
EmptyBlock ==
    <<66, 90, 104, 49, 49, 65, 89, 38, 83, 89, 0, 0, 0, 0, 0, 0, 0, 1, 0, 32,
      0, 32, 0, 32, 160, 40, 192>>

\* Two blocks: the first has the byte values 0x61 and 0x62 (four symbols,
\* all of code length 2) and decodes to "bb"; the second has 0x61 only (three
\* symbols of code length 2, the code 11 unassigned) and its MTF values are
\* RUNA and then the bits 11 followed by nineteen 1 bits.
\* One block over 0x61 and 0x62 with two coding tables (code lengths 2,3,1,3
\* and 3,3,2,1) and the selectors 0, 1: RUNA, RUNB, 44 literals and four
\* RUNA with the first table, then 50 literals with the second; the 100th
\* symbol is not EOB and the file ends after it.
GroupSwitch ==
    <<66, 90, 104, 49, 49, 65, 89, 38, 83, 89, 0, 0, 0, 0, 0, 0, 0, 1, 0, 48,
      0, 32, 0, 72, 73, 234, 12, 218, 192, 0, 0, 0, 0, 1, 85, 85, 85, 85, 85,
      85, 85, 85, 85, 85, 85, 85, 85, 64>>

\* A whole stream of one block over 0x61: RUNA, RUNA, EOB ("aaa").
RunEnds ==
    <<66, 90, 104, 49, 49, 65, 89, 38, 83, 89, 31, 229, 223, 206, 0, 0, 0, 1,
      0, 32, 0, 32, 0, 32, 160, 40, 49, 119, 36, 83, 133, 9, 1, 254, 93, 252,
      224>>

\* One block over 0x61 whose MTF values are 3 RUNB and then 19 RUNA: the
\* 22nd RUN symbol starts at a byte boundary.
LongRun ==
    <<66, 90, 104, 49, 49, 65, 89, 38, 83, 89, 0, 0, 0, 0, 0, 0, 0, 1, 0, 32,
      0, 32, 0, 32, 160, 40, 168, 0, 0, 0>>

TwoAlphabets ==
    <<66, 90, 104, 49, 49, 65, 89, 38, 83, 89, 155, 120, 162, 30, 0, 0, 0,
      129, 0, 48, 0, 32, 0, 33, 0, 128, 179, 20, 21, 146, 101, 53, 144, 0, 0,
      0, 0, 0, 0, 0, 16, 2, 0, 2, 0, 2, 16, 16, 63, 255, 254>>

\* Files made for one case each, decoded in the fast mode in pieces only
\* (and the empty stream with one byte after it, for the trailer and a call
\* after the end of the stream).
Crafted ==
    {StreamEmpty \o <<BZ_HDR_B>>, RunOverflows, OrigPtrHuge, EmptyBlock, TwoAlphabets,
     GroupSwitch, LongRun, RunEnds}

\* The files of Crafted whose runs fit in the block are decoded in the small
\* mode too.
CraftedSmall == {GroupSwitch, RunEnds}

\* The files decoded in the small mode as well.
SmallFiles == {StreamEmpty, StreamMain}

(***************************************************************************)
(* The state machine                                                       *)
(***************************************************************************)
\* What a caller sees of a session when a call has returned: the return code,
\* the bytes consumed, the bytes produced and the contents of the session.
Contents(ds) ==
    [state |-> ds.state, blockSize100k |-> ds.blockSize100k,
     storedBlockCRC |-> ds.storedBlockCRC, blockRandomised |-> ds.blockRandomised,
     origPtr |-> ds.origPtr, inUse |-> ds.inUse, seqToUnseq |-> ds.seqToUnseq,
     selector |-> ds.selector, len |-> ds.len, nblock |-> ds.save.nblock,
     block |-> BlockArray(ds), unzftab |-> ds.unzftab]

Outcome(m) ==
    [ret |-> m.ret, total_in |-> m.strm.total_in_lo32, out |-> m.hist.out,
     session |-> Contents(m.s)]

NoRef == [ret |-> "none"]

\* No driver at work, no block under inversion.
NoDrv == [pc |-> "none"]
NoBlk == [pc |-> "none"]

\* The caller decodes the file twice: first with the whole file in one call
\* (ref keeps what that call returned), then in a new session in pieces.
Init ==
    /\ \E small \in BOOLEAN :
          /\ input \in (IF small THEN SmallFiles
                        ELSE Intact \cup Damaged \cup Trailing \cup {BlockCrcDamaged})
          /\ s = InitDState(small)
    /\ ref = NoRef
    /\ strm = InitStrm
    /\ loc = InitLocals
    /\ pc = "caller"
    /\ ret = "none"
    /\ hist = InitHist
    /\ drv = NoDrv
    /\ blk = NoBlk

CallWhole ==
    /\ pc = "caller"
    /\ ref = NoRef
    /\ ret = "none"
    /\ Apply(CallOp(M, Len(input)))

\* BZ2_bzDecompressEnd and BZ2_bzDecompressInit: a new session on the same file
Reopen ==
    /\ pc = "caller"
    /\ ref = NoRef
    /\ ret # "none"
    /\ ref' = Outcome(M)
    /\ s' = InitDState(s.smallDecompress)
    /\ strm' = InitStrm
    /\ loc' = InitLocals
    /\ ret' = "none"
    /\ hist' = InitHist
    /\ UNCHANGED <<input, pc, drv, blk>>

\* The caller supplies k more bytes of the file and calls bzDecompress.
Call ==
    /\ pc = "caller"
    /\ ref # NoRef
    /\ \E k \in 0..(Len(input) - hist.fed) :
          /\ strm.avail_in + k > 0
          /\ Apply(CallOp(M, k))

bzDecompress_idle ==
    /\ pc = "bzDecompress"
    /\ s.state = "BZ_X_IDLE"
    /\ Apply(ToCaller(M, "BZ_SEQUENCE_ERROR"))

bzDecompress_output ==
    /\ pc = "bzDecompress"
    /\ s.state = "BZ_X_OUTPUT"
    /\ Apply(bzDecompress_output_op(M))

\* The values the block-scoped local base may hold when BZ2_decompress is
\* entered: it is read without initialisation when the switch jumps to
\* BZ_X_MAPPING_2 (what the stack slot held at the last return, or anything
\* else: 0 and 8 stand for the other values); at every other label it is
\* out of scope.
EntryBase(m) ==
    IF m.s.state = "BZ_X_MAPPING_2" THEN {m.loc.base, 0, 8} ELSE {0}

BZ2_decompress ==
    /\ pc = "bzDecompress"
    /\ s.state \notin {"BZ_X_IDLE", "BZ_X_OUTPUT"}
    /\ \E g \in EntryBase(M) : Apply(BZ2_decompress_entry(M, g))

AtFetch(lll) == pc = "BZ2_decompress" /\ s.state = lll /\ s.bsLive >= Width(M)

\* GET_BITS with too few live bits: load a byte, or return for more input
GET_BITS_byte ==
    /\ pc = "BZ2_decompress"
    /\ s.bsLive < Width(M)
    /\ strm.avail_in # 0
    /\ Apply(GET_BITS_load(M))

GET_BITS_suspend ==
    /\ pc = "BZ2_decompress"
    /\ s.bsLive < Width(M)
    /\ strm.avail_in = 0
    /\ Apply(RETURN(M, "BZ_OK"))

\* The allocator may fail; the whole-file run is made with memory available.
BZ_X_MAGIC_4 ==
    /\ AtFetch("BZ_X_MAGIC_4")
    /\ \E ok1, ok2 \in (IF ref = NoRef THEN {TRUE} ELSE BOOLEAN) :
          Apply(X_MAGIC_4(M, ok1, ok2))

BZ_X_MAGIC_1 == AtFetch("BZ_X_MAGIC_1") /\ Apply(X_MAGIC_1(M))
BZ_X_MAGIC_2 == AtFetch("BZ_X_MAGIC_2") /\ Apply(X_MAGIC_2(M))
BZ_X_MAGIC_3 == AtFetch("BZ_X_MAGIC_3") /\ Apply(X_MAGIC_3(M))
BZ_X_BLKHDR_1 == AtFetch("BZ_X_BLKHDR_1") /\ Apply(X_BLKHDR_1(M))
BZ_X_BLKHDR_2 == AtFetch("BZ_X_BLKHDR_2") /\ Apply(X_BLKHDR_2(M))
BZ_X_BLKHDR_3 == AtFetch("BZ_X_BLKHDR_3") /\ Apply(X_BLKHDR_3(M))
BZ_X_BLKHDR_4 == AtFetch("BZ_X_BLKHDR_4") /\ Apply(X_BLKHDR_4(M))
BZ_X_BLKHDR_5 == AtFetch("BZ_X_BLKHDR_5") /\ Apply(X_BLKHDR_5(M))
BZ_X_BLKHDR_6 == AtFetch("BZ_X_BLKHDR_6") /\ Apply(X_BLKHDR_6(M))
BZ_X_BCRC_1 == AtFetch("BZ_X_BCRC_1") /\ Apply(X_BCRC_1(M))
BZ_X_BCRC_2 == AtFetch("BZ_X_BCRC_2") /\ Apply(X_BCRC_2(M))
BZ_X_BCRC_3 == AtFetch("BZ_X_BCRC_3") /\ Apply(X_BCRC_3(M))
BZ_X_BCRC_4 == AtFetch("BZ_X_BCRC_4") /\ Apply(X_BCRC_4(M))
BZ_X_RANDBIT == AtFetch("BZ_X_RANDBIT") /\ Apply(X_RANDBIT(M))
BZ_X_ORIGPTR_1 == AtFetch("BZ_X_ORIGPTR_1") /\ Apply(X_ORIGPTR_1(M))
BZ_X_ORIGPTR_2 == AtFetch("BZ_X_ORIGPTR_2") /\ Apply(X_ORIGPTR_2(M))
BZ_X_ORIGPTR_3 == AtFetch("BZ_X_ORIGPTR_3") /\ Apply(X_ORIGPTR_3(M))
BZ_X_MAPPING_1 == AtFetch("BZ_X_MAPPING_1") /\ Apply(X_MAPPING_1(M))
BZ_X_MAPPING_2 == AtFetch("BZ_X_MAPPING_2") /\ Apply(X_MAPPING_2(M))
BZ_X_SELECTOR_1 == AtFetch("BZ_X_SELECTOR_1") /\ Apply(X_SELECTOR_1(M))
BZ_X_SELECTOR_2 == AtFetch("BZ_X_SELECTOR_2") /\ Apply(X_SELECTOR_2(M))
BZ_X_SELECTOR_3 == AtFetch("BZ_X_SELECTOR_3") /\ Apply(X_SELECTOR_3(M))
BZ_X_CODING_1 == AtFetch("BZ_X_CODING_1") /\ Apply(X_CODING_1(M))
BZ_X_CODING_2 == AtFetch("BZ_X_CODING_2") /\ Apply(X_CODING_2(M))
BZ_X_CODING_3 == AtFetch("BZ_X_CODING_3") /\ Apply(X_CODING_3(M))
BZ_X_MTF_1 == AtFetch("BZ_X_MTF_1") /\ Apply(X_MTF_1(M))
BZ_X_MTF_2 == AtFetch("BZ_X_MTF_2") /\ Apply(X_MTF_2(M))
BZ_X_MTF_3 == AtFetch("BZ_X_MTF_3") /\ Apply(X_MTF_3(M))
BZ_X_MTF_4 == AtFetch("BZ_X_MTF_4") /\ Apply(X_MTF_4(M))
BZ_X_MTF_5 == AtFetch("BZ_X_MTF_5") /\ Apply(X_MTF_5(M))
BZ_X_MTF_6 == AtFetch("BZ_X_MTF_6") /\ Apply(X_MTF_6(M))
BZ_X_ENDHDR_2 == AtFetch("BZ_X_ENDHDR_2") /\ Apply(X_ENDHDR_2(M))
BZ_X_ENDHDR_3 == AtFetch("BZ_X_ENDHDR_3") /\ Apply(X_ENDHDR_3(M))
BZ_X_ENDHDR_4 == AtFetch("BZ_X_ENDHDR_4") /\ Apply(X_ENDHDR_4(M))
BZ_X_ENDHDR_5 == AtFetch("BZ_X_ENDHDR_5") /\ Apply(X_ENDHDR_5(M))
BZ_X_ENDHDR_6 == AtFetch("BZ_X_ENDHDR_6") /\ Apply(X_ENDHDR_6(M))
BZ_X_CCRC_1 == AtFetch("BZ_X_CCRC_1") /\ Apply(X_CCRC_1(M))
BZ_X_CCRC_2 == AtFetch("BZ_X_CCRC_2") /\ Apply(X_CCRC_2(M))
BZ_X_CCRC_3 == AtFetch("BZ_X_CCRC_3") /\ Apply(X_CCRC_3(M))
BZ_X_CCRC_4 == AtFetch("BZ_X_CCRC_4") /\ Apply(X_CCRC_4(M))

save_state_and_return ==
    /\ pc = "save_state_and_return"
    /\ Apply(save_state_and_return_op(M))

bzDecompress_ret ==
    /\ pc = "returned"
    /\ Apply(bzDecompress_ret_op(M))

\* One step of a session.
Decode ==
    \/ Call
    \/ bzDecompress_idle
    \/ bzDecompress_output
    \/ BZ2_decompress
    \/ GET_BITS_byte
    \/ GET_BITS_suspend
    \/ BZ_X_MAGIC_4
    \/ BZ_X_MAGIC_1
    \/ BZ_X_MAGIC_2
    \/ BZ_X_MAGIC_3
    \/ BZ_X_BLKHDR_1
    \/ BZ_X_BLKHDR_2
    \/ BZ_X_BLKHDR_3
    \/ BZ_X_BLKHDR_4
    \/ BZ_X_BLKHDR_5
    \/ BZ_X_BLKHDR_6
    \/ BZ_X_BCRC_1
    \/ BZ_X_BCRC_2
    \/ BZ_X_BCRC_3
    \/ BZ_X_BCRC_4
    \/ BZ_X_RANDBIT
    \/ BZ_X_ORIGPTR_1
    \/ BZ_X_ORIGPTR_2
    \/ BZ_X_ORIGPTR_3
    \/ BZ_X_MAPPING_1
    \/ BZ_X_MAPPING_2
    \/ BZ_X_SELECTOR_1
    \/ BZ_X_SELECTOR_2
    \/ BZ_X_SELECTOR_3
    \/ BZ_X_CODING_1
    \/ BZ_X_CODING_2
    \/ BZ_X_CODING_3
    \/ BZ_X_MTF_1
    \/ BZ_X_MTF_2
    \/ BZ_X_MTF_3
    \/ BZ_X_MTF_4
    \/ BZ_X_MTF_5
    \/ BZ_X_MTF_6
    \/ BZ_X_ENDHDR_2
    \/ BZ_X_ENDHDR_3
    \/ BZ_X_ENDHDR_4
    \/ BZ_X_ENDHDR_5
    \/ BZ_X_ENDHDR_6
    \/ BZ_X_CCRC_1
    \/ BZ_X_CCRC_2
    \/ BZ_X_CCRC_3
    \/ BZ_X_CCRC_4
    \/ save_state_and_return
    \/ bzDecompress_ret

Next ==
    \/ CallWhole
    \/ Reopen
    \/ Decode

Spec == Init /\ [][Next]_vars

\* The files made for one case each are decoded in pieces from the start.
Direct == [ret |-> "direct"]

\* Files whose block header or coding tables break one rule each; all but
\* EmptyMap and SelectorsMixed start as TablesHead: a block at level 1 whose
\* mapping table has the byte 0x61 only, up to the first 8 bits of the chunk
\* of 0x61.
TablesHead ==
    <<66, 90, 104, 49, 49, 65, 89, 38, 83, 89, 0, 0, 0, 0, 0, 0, 0, 1, 0, 32,
      0>>

\* nGroups 2, nSelectors 1, selector code 0, and then a coding table whose
\* 5-bit start value is 0; is 21; is 20 and is raised by one; is 1 and, after
\* the length of the first symbol, lowered by one.
LenStartZero == TablesHead \o <<32, 0, 32, 0>>
LenStartHigh == TablesHead \o <<32, 0, 42, 128>>
LenUp == TablesHead \o <<32, 0, 42, 64>>
LenDown == TablesHead \o <<32, 0, 32, 176>>

\* nGroups 2, nSelectors 2, selector codes 0 and 11.
SelectorLong == TablesHead \o <<32, 0, 76>>

\* The mapping table marks no chunk; nGroups is 1; is 7; nSelectors is 0.
EmptyMap == SubSeq(TablesHead, 1, 17) \o <<0, 0, 0>>
GroupsOne == TablesHead \o <<16>>
GroupsSeven == TablesHead \o <<112>>
NoSelectors == TablesHead \o <<32, 0, 0>>

\* A whole stream ("bb"): three coding tables (code lengths 2,2,2,2 and
\* 3,3,2,1 and 2,1,3,3), the selectors 2, 0, 2, 1 (codes 110, 110, 10, 110)
\* and the symbols RUNA, a literal, EOB.
SelectorsMixed ==
    <<66, 90, 104, 49, 49, 65, 89, 38, 83, 89, 155, 120, 162, 30, 0, 0, 0,
      129, 0, 48, 0, 48, 0, 154, 176, 128, 102, 194, 106, 45, 197, 220, 145,
      78, 20, 36, 38, 222, 40, 135, 128>>

\* Three symbols of code length 2 (the code 11 unassigned), and as the first
\* symbol the bits 11 and nineteen more 1 bits.
CodeTooLong == TablesHead \o <<32, 0, 33, 1, 15, 255, 255, 128>>

Tables ==
    {StreamEmpty \o <<BZ_HDR_B>>, CodeTooLong, SelectorsMixed, LenStartZero,
     LenStartHigh, LenUp, LenDown, SelectorLong, EmptyMap, GroupsOne,
     GroupsSeven, NoSelectors}

InitTables ==
    /\ input \in Tables
    /\ s = InitDState(FALSE)
    /\ ref = Direct
    /\ strm = InitStrm
    /\ loc = InitLocals
    /\ pc = "caller"
    /\ ret = "none"
    /\ hist = InitHist
    /\ drv = NoDrv
    /\ blk = NoBlk

SpecTables == InitTables /\ [][Decode]_vars

InitCrafted ==
    /\ input \in Crafted
    /\ \E small \in BOOLEAN :
          /\ small => input \in CraftedSmall
          /\ s = InitDState(small)
    /\ ref = Direct
    /\ strm = InitStrm
    /\ loc = InitLocals
    /\ pc = "caller"
    /\ ret = "none"
    /\ hist = InitHist
    /\ drv = NoDrv
    /\ blk = NoBlk

SpecCrafted == InitCrafted /\ [][Decode]_vars

(***************************************************************************)
(* Properties                                                              *)
(***************************************************************************)
\* The eight bits of the file that start at bit b (bits beyond the end read 0).
ByteAt(b) ==
    LET q == b \div 8
        hi == IF q + 1 <= Len(input) THEN input[q + 1] ELSE 0
        lo == IF q + 2 <= Len(input) THEN input[q + 2] ELSE 0
    IN ((hi * 256 + lo) \div Pow2(8 - (b % 8))) % 256

\* The n bytes of the file that start at bit b are the first n of pat.
Prefix(pat, b, n) == \A k \in 1..n : ByteAt(b + 8 * (k - 1)) = pat[k]

BlockMagic == <<49, 65, 89, 38, 83, 89>>
EndMagic == <<23, 114, 69, 56, 80, 144>>

\* The four bytes of a 32-bit word, most significant first.
Bytes32(w) == <<w[1] \div 256, w[1] % 256, w[2] \div 256, w[2] % 256>>

MagicLabels == {"BZ_X_MAGIC_1", "BZ_X_MAGIC_2", "BZ_X_MAGIC_3", "BZ_X_MAGIC_4"}
BlkLabels ==
    <<"BZ_X_BLKHDR_1", "BZ_X_BLKHDR_2", "BZ_X_BLKHDR_3", "BZ_X_BLKHDR_4",
      "BZ_X_BLKHDR_5", "BZ_X_BLKHDR_6">>
EndLabels ==
    <<"BZ_X_BLKHDR_1", "BZ_X_ENDHDR_2", "BZ_X_ENDHDR_3", "BZ_X_ENDHDR_4",
      "BZ_X_ENDHDR_5", "BZ_X_ENDHDR_6">>
HeaderLabels == {BlkLabels[j] : j \in 1..6} \cup {EndLabels[j] : j \in 1..6}

\* BZ2_decompress is returning to bzDecompress.
Returning == pc \in {"save_state_and_return", "returned"}
\* ... with an error or the end of the stream, the first of the session
Failing == Returning /\ loc.retVal # "BZ_OK" /\ hist.err = "none"

Split == ref # NoRef

\* The first call of the split run that ends the decoding has returned (or
\* the file is used up and the decoder waits for more).
FirstEnd ==
    /\ Split
    /\ pc = "caller"
    /\ \/ hist.ends = 1 /\ ret # "BZ_OK"
       \/ hist.ends = 0 /\ ret = "BZ_OK" /\ hist.fed = Len(input)

NoMemError == ref.ret # "BZ_MEM_ERROR" /\ hist.err # "BZ_MEM_ERROR"

\* C1: split invariance.  A file fed in pieces ends with the same return
\* code, the same number of bytes consumed, the same output and the same
\* session contents as the file fed whole in one call.
C1_SplitInvariance == (FirstEnd /\ NoMemError) => Outcome(M) = ref

\* C2: truncation.  For a file the decoder accepts when fed whole (and uses
\* up to its last byte), BZ2_decompress fed a proper prefix only, in any
\* chunking, never returns BZ_DATA_ERROR, BZ_DATA_ERROR_MAGIC or
\* BZ_STREAM_END.
C2_Truncation ==
    (/\ Split
     /\ ref.ret = "BZ_STREAM_END"
     /\ ref.total_in = Len(input)
     /\ hist.fed < Len(input)
     /\ hist.err = "none"
     /\ pc = "returned")
    => loc.retVal \notin {"BZ_DATA_ERROR", "BZ_DATA_ERROR_MAGIC", "BZ_STREAM_END"}

\* C3: input pointer protocol.  A step that loads a byte finds avail_in > 0,
\* takes 1 from avail_in and adds 1 to next_in and to total_in; nothing else
\* lowers avail_in; the bytes read never exceed the bytes supplied; and on
\* return total_in, next_in and avail_in tell exactly the bytes consumed.
C3_Supplied ==
    /\ strm.next_in + strm.avail_in = hist.fed
    /\ strm.avail_in >= 0
    /\ hist.fed <= Len(input)
    /\ pc \in {"returned", "caller"} =>
          strm.total_in_lo32 = strm.next_in /\ strm.total_in_hi32 = 0

C3_Load ==
    (ref' = ref) =>
        /\ strm'.next_in # strm.next_in =>
              /\ strm.avail_in > 0
              /\ strm'.avail_in = strm.avail_in - 1
              /\ strm'.next_in = strm.next_in + 1
              /\ loc'.total_in = loc.total_in + 1
        /\ strm'.avail_in < strm.avail_in => strm'.next_in # strm.next_in

LiveLocals(lll) ==
    SavedLocals \cup (IF lll = "BZ_X_MAPPING_2" THEN {"base"} ELSE {})

C4_Step ==
    /\ (pc = "BZ2_decompress" /\ s.bsLive < Width(M) /\ strm.avail_in = 0) =>
          /\ pc' = "save_state_and_return"
          /\ loc'.retVal = "BZ_OK"
          /\ s' = s
    /\ (pc = "save_state_and_return" /\ loc.retVal = "BZ_OK"
            /\ s.state \notin {"BZ_X_OUTPUT", "BZ_X_IDLE"}) =>
          \A f \in LiveLocals(s.state) : f \in DOMAIN s'.save /\ s'.save[f] = loc[f]
    /\ (pc = "bzDecompress" /\ pc' = "BZ2_decompress"
            /\ s.state # "BZ_X_MAGIC_1") =>
          /\ \A f \in LiveLocals(s.state) : loc'[f] = loc[f]
          /\ s'.state = s.state
          /\ s'.bsBuff = s.bsBuff /\ s'.bsLive = s.bsLive
          /\ strm'.next_in = strm.next_in

C4_Suspension == [][C4_Step]_vars

\* C5: magic discrimination.  With a bad byte among the first four, the
\* first error is BZ_DATA_ERROR_MAGIC, returned at the first offending byte;
\* until then nothing is allocated, no block is parsed, nothing is output.
FirstBad ==
    IF input[1] # BZ_HDR_B THEN 1
    ELSE IF input[2] # BZ_HDR_Z THEN 2
    ELSE IF input[3] # BZ_HDR_h THEN 3
    ELSE IF input[4] \notin (BZ_HDR_0 + 1)..(BZ_HDR_0 + 9) THEN 4
    ELSE 0

C5_MagicDiscrimination ==
    FirstBad # 0 =>
        /\ hist.err \in {"none", "BZ_DATA_ERROR_MAGIC"}
        /\ hist.err = "none" =>
              /\ strm.next_in <= FirstBad
              /\ s.state \in MagicLabels
              /\ hist.allocs = 0 /\ s.ttAlloc = 0 /\ s.ll16Alloc = 0 /\ s.ll4Alloc = 0
              /\ hist.out = <<>>
              /\ pc = "caller" => ret \in {"none", "BZ_OK"} /\ strm.next_in < FirstBad
        /\ Failing => loc.retVal = "BZ_DATA_ERROR_MAGIC" /\ strm.next_in = FirstBad

C5_Witness ==
    FirstBad = 4 /\ pc = "caller" /\ ret = "BZ_DATA_ERROR_MAGIC" /\ strm.avail_in > 0

\* C6: BZ2_decompress returns BZ_STREAM_END only when the last ten bytes it
\* parsed are the end-of-stream magic and the combined CRC it stored; the
\* state is then BZ_X_IDLE, and no byte after the one holding the last
\* trailer bit has been consumed: what follows is still counted in avail_in.
C6_StreamEnd ==
    (Returning /\ loc.retVal = "BZ_STREAM_END") =>
        /\ s.state = "BZ_X_IDLE"
        /\ BitPos(M) >= 80
        /\ hist.err = "none" => Prefix(EndMagic, BitPos(M) - 80, 6)
        /\ Prefix(Bytes32(s.storedCombinedCRC), BitPos(M) - 32, 4)
        /\ s.bsLive <= 7
        /\ strm.next_in + strm.avail_in = hist.fed

C6_Witness ==
    pc = "returned" /\ loc.retVal = "BZ_STREAM_END" /\ hist.err = "none"
        /\ strm.avail_in > 0

\* C7: combined CRC validation.  When the trailer has been read, the call
\* returns BZ_STREAM_END if the 32-bit value in the trailer is the
\* rotate-left-by-1-and-XOR combination of the CRCs of the stream's blocks,
\* and BZ_DATA_ERROR if it is not.
RECURSIVE FoldCRC(_, _)
FoldCRC(crcs, acc) ==
    IF crcs = <<>> THEN acc
    ELSE FoldCRC(Tail(crcs), Xor32(RotL32By1(acc), Head(crcs)))

TrailerRead == pc = "caller" /\ s.state = "BZ_X_IDLE" /\ hist.ends = 1
TrailerMatches == Prefix(Bytes32(FoldCRC(hist.crcs, Zero32)), BitPos(M) - 32, 4)

C7_CombinedCRC ==
    TrailerRead =>
        ret = IF TrailerMatches THEN "BZ_STREAM_END" ELSE "BZ_DATA_ERROR"

C7_Witness == TrailerRead /\ ~TrailerMatches /\ ret = "BZ_DATA_ERROR"

\* C8: after an error has been returned, no step of a later call on the
\* session consumes input, changes the contents of the session or returns
\* BZ_OK or BZ_STREAM_END.
C8_Step ==
    (hist.err # "none" /\ ref' = ref) =>
        /\ strm'.next_in = strm.next_in
        /\ Contents(s') = Contents(s)
        /\ ret' \notin {"BZ_OK", "BZ_STREAM_END"}

C8_ErrorLatches == [][C8_Step]_vars

\* C9: at a block boundary the parser is at the j-th header label exactly
\* when the j-1 bytes from the boundary are those of the block magic (or of
\* the end magic); it returns BZ_DATA_ERROR at the first byte that matches
\* neither pattern in progress, and only there; six matching bytes start the
\* block (its CRC) or the trailer (the combined CRC).
HeaderBytes == (BitPos(M) - hist.boundary) \div 8

C9_BlockBoundary ==
    hist.err = "none" =>
        /\ \A j \in 1..6 :
              /\ (s.state = BlkLabels[j] /\ ~Failing) =>
                    HeaderBytes = j - 1 /\ Prefix(BlockMagic, hist.boundary, j - 1)
              /\ (s.state = EndLabels[j] /\ ~Failing) =>
                    HeaderBytes = j - 1 /\ Prefix(EndMagic, hist.boundary, j - 1)
              /\ (s.state = BlkLabels[j] /\ Failing) =>
                    /\ loc.retVal = "BZ_DATA_ERROR"
                    /\ HeaderBytes = j
                    /\ Prefix(BlockMagic, hist.boundary, j - 1)
                    /\ ~Prefix(BlockMagic, hist.boundary, j)
              /\ (s.state = EndLabels[j] /\ Failing) =>
                    /\ loc.retVal = "BZ_DATA_ERROR"
                    /\ HeaderBytes = j
                    /\ Prefix(EndMagic, hist.boundary, j - 1)
                    /\ ~Prefix(EndMagic, hist.boundary, j)
        /\ (s.state = "BZ_X_BCRC_1" /\ ~Returning) =>
              HeaderBytes = 6 /\ Prefix(BlockMagic, hist.boundary, 6)
        /\ (s.state = "BZ_X_CCRC_1" /\ ~Returning) =>
              HeaderBytes = 6 /\ Prefix(EndMagic, hist.boundary, 6)

C9_Witness ==
    Failing /\ s.state = "BZ_X_ENDHDR_3" /\ hist.boundary % 8 # 0
        /\ loc.retVal = "BZ_DATA_ERROR"

\* C10 (as the code has it): a bad block magic or end magic is reported as
\* BZ_DATA_ERROR; BZ_DATA_ERROR_MAGIC is returned for the four bytes of the
\* file magic only, so the two stay distinguishable.
C10_BlockMagicIsDataError ==
    /\ (Failing /\ s.state \in HeaderLabels) => loc.retVal = "BZ_DATA_ERROR"
    /\ (Returning /\ loc.retVal = "BZ_DATA_ERROR_MAGIC") => s.state \in MagicLabels

C10_Witness == Failing /\ s.state = "BZ_X_BLKHDR_1" /\ strm.next_in = 5

\* C10 as claimed: a bad block magic is reported as BZ_DATA_ERROR_MAGIC.
C10_BlockMagicIsMagicError ==
    (Failing /\ s.state \in HeaderLabels) => loc.retVal = "BZ_DATA_ERROR_MAGIC"

(***************************************************************************)
(* The driver of bzip2.c: uncompressStream and testStream.                 *)
(*                                                                         *)
(* The driver sees the decoder through BZ2_bzReadOpen, BZ2_bzRead,         *)
(* BZ2_bzReadGetUnused and BZ2_bzReadClose only, so a file is a sequence   *)
(* of marks here: "H" the header of a stream, "D" compressed data that     *)
(* decodes to one byte, "E" a trailer whose CRC matches, "X" bytes that    *)
(* are none of these.  One step is one call of the read interface or one   *)
(* of the driver's labelled code sections.                                 *)
(***************************************************************************)
MaxFile == 5        \* the longest file, in marks
ReadBufLen == 2     \* the read buffer of a BZFILE, in marks (BZ_MAX_UNUSED bytes in bzlib.c)
ObufLen == 2        \* the driver's obuf, in decoded bytes (5000 in bzip2.c)

Marks == {"H", "D", "E", "X"}
Files == UNION {[1..n -> Marks] : n \in 0..MaxFile}

\* myfeof: nothing left to read from the handle.
myfeof(d) == d.fpos = Len(d.file)

\* The decoder inside a BZFILE at work on the buffered marks: it stops when
\* the buffer is empty, when the caller's room is used up, at the end of the
\* stream, or at the first mark that does not fit.
RECURSIVE BZ2_bzDecompress(_)
BZ2_bzDecompress(d) ==
    IF d.buf = <<>> THEN [d EXCEPT !.ret = "BZ_OK"]
    ELSE LET mark == Head(d.buf)
             at == d.fpos - Len(d.buf) + 1
             eat == [d EXCEPT !.buf = Tail(d.buf)]
         IN IF d.dstate = "start"
            THEN IF mark = "H"
                 THEN BZ2_bzDecompress([eat EXCEPT !.dstate = "body"])
                 ELSE [d EXCEPT !.ret = "BZ_DATA_ERROR_MAGIC"]
            ELSE IF mark = "D"
                 THEN IF d.room = 0 THEN [d EXCEPT !.ret = "BZ_OK"]
                      ELSE BZ2_bzDecompress(
                             [eat EXCEPT !.room = d.room - 1,
                                         !.got = Append(d.got, [kind |-> "dec", at |-> at])])
                 ELSE IF mark = "E"
                 THEN [eat EXCEPT !.ret = "BZ_STREAM_END", !.dstate = "end"]
                 ELSE [d EXCEPT !.ret = "BZ_DATA_ERROR"]

\* fread into the buffer of the BZFILE, when it is empty and the handle is
\* not at its end.
Refill(d) ==
    IF d.buf = <<>> /\ ~myfeof(d)
    THEN LET n == Min(ReadBufLen, Len(d.file) - d.fpos)
         IN [d EXCEPT !.buf = SubSeq(d.file, d.fpos + 1, d.fpos + n),
                      !.fpos = d.fpos + n]
    ELSE d

\* BZ2_bzRead: refill and decode until the room is used, the stream ends or
\* an error shows; bzerr is what it leaves, got what it has read.
RECURSIVE ReadLoop(_)
ReadLoop(d) ==
    LET e == BZ2_bzDecompress(Refill(d))
    IN IF e.ret \notin {"BZ_OK", "BZ_STREAM_END"}
       THEN [e EXCEPT !.bzerr = e.ret, !.got = <<>>]
       ELSE IF e.ret = "BZ_OK" /\ myfeof(e) /\ e.buf = <<>> /\ e.room > 0
       THEN [e EXCEPT !.bzerr = "BZ_UNEXPECTED_EOF", !.got = <<>>]
       ELSE IF e.ret = "BZ_STREAM_END"
       THEN [e EXCEPT !.bzerr = "BZ_STREAM_END"]
       ELSE IF e.room = 0
       THEN [e EXCEPT !.bzerr = "BZ_OK"]
       ELSE ReadLoop(e)

BZ2_bzRead(d, len) == ReadLoop([d EXCEPT !.room = len, !.got = <<>>])

\* BZ2_bzReadOpen: a fresh decoder whose buffer holds the unused bytes.
BZ2_bzReadOpen(d, unused) ==
    [d EXCEPT !.buf = unused, !.dstate = "start", !.bzerr = "BZ_OK",
              !.ret = "BZ_OK", !.room = 0, !.got = <<>>]

\* BZ2_bzReadGetUnused: what the decoder has buffered and not consumed.
BZ2_bzReadGetUnused(d) == d.buf

\* The raw copy of trycat: rewind, then every byte of the file as it is.
RawCopy(file) == [k \in 1..Len(file) |-> [kind |-> "raw", at |-> k]]

\* errhandler: is a BZ_DATA_ERROR_MAGIC the fault of the file (stream 1),
\* or trailing garbage (a later stream)?
GarbageMutAlwaysFatal(streamNo) == TRUE
NotABzip2File(streamNo) == streamNo = 1

StartDrv(fn, force, file) ==
    [pc |-> "bzReadOpen", fn |-> fn, forceOverwrite |-> force, file |-> file,
     fpos |-> 0, buf |-> <<>>, dstate |-> "none", room |-> 0, got |-> <<>>,
     ret |-> "BZ_OK", bzerr |-> "BZ_OK", unused |-> <<>>, streamNo |-> 0,
     out |-> <<>>, result |-> "none", ends |-> 0]

InitDriver ==
    /\ input = StreamEmpty
    /\ strm = InitStrm
    /\ s = InitDState(FALSE)
    /\ loc = InitLocals
    /\ pc = "caller"
    /\ ret = "none"
    /\ hist = InitHist
    /\ ref = NoRef
    /\ blk = NoBlk
    /\ \E fn \in {"uncompressStream", "testStream"}, force \in BOOLEAN, file \in Files :
          drv = StartDrv(fn, force, file)

Drive(d) ==
    /\ drv' = d
    /\ UNCHANGED <<input, strm, s, loc, pc, ret, hist, ref, blk>>

\* bzip2.c 372-379 / 487-494: open the next stream on the unused bytes; the
\* library may fail to allocate.
Drv_bzReadOpen ==
    /\ drv.pc = "bzReadOpen"
    /\ \E ok \in BOOLEAN :
          IF ok
          THEN Drive([BZ2_bzReadOpen(drv, drv.unused) EXCEPT
                         !.streamNo = drv.streamNo + 1, !.pc = "bzRead"])
          ELSE Drive([drv EXCEPT !.bzerr = "BZ_MEM_ERROR", !.pc = "errhandler"])

\* bzip2.c 381-388 / 496-500: one turn of the read loop.
Drv_bzRead ==
    /\ drv.pc = "bzRead"
    /\ LET d == BZ2_bzRead(drv, ObufLen)
           wrote == IF drv.fn = "uncompressStream"
                       /\ d.bzerr \in {"BZ_OK", "BZ_STREAM_END"}
                    THEN drv.out \o d.got ELSE drv.out
       IN IF d.bzerr = "BZ_DATA_ERROR_MAGIC"
          THEN Drive([d EXCEPT !.pc = IF drv.fn = "uncompressStream"
                                      THEN "trycat" ELSE "errhandler"])
          ELSE IF d.bzerr = "BZ_OK"
          THEN Drive([d EXCEPT !.out = wrote])
          ELSE IF d.bzerr # "BZ_STREAM_END"
          THEN Drive([d EXCEPT !.pc = "errhandler"])
          ELSE Drive([d EXCEPT !.out = wrote, !.pc = "bzReadClose"])

\* bzip2.c 391-400 / 505-515: take the unused bytes over, close the
\* stream, and stop when nothing is left.
Drv_bzReadClose ==
    /\ drv.pc = "bzReadClose"
    /\ LET d == [drv EXCEPT !.unused = BZ2_bzReadGetUnused(drv), !.buf = <<>>,
                            !.dstate = "none", !.ends = drv.ends + 1]
       IN IF Len(d.unused) = 0 /\ myfeof(d)
          THEN Drive([d EXCEPT !.pc = "done", !.result = "true"])
          ELSE Drive([d EXCEPT !.pc = "bzReadOpen"])

\* bzip2.c 424-435: with force-overwrite the input is copied as it is.
Drv_trycat ==
    /\ drv.pc = "trycat"
    /\ IF drv.forceOverwrite
       THEN Drive([drv EXCEPT !.fpos = Len(drv.file),
                              !.out = drv.out \o RawCopy(drv.file),
                              !.pc = "done", !.result = "true"])
       ELSE Drive([drv EXCEPT !.pc = "errhandler"])

\* bzip2.c 437-465 / 517-559: the switch on bzerr.  crcError, outOfMemory
\* and compressedStreamEOF leave the program; testStream returns false
\* where uncompressStream leaves through crcError or compressedStreamEOF.
Drv_errhandler ==
    /\ drv.pc = "errhandler"
    /\ LET leave(how) == Drive([drv EXCEPT !.pc = "done", !.result = how])
       IN IF drv.bzerr = "BZ_DATA_ERROR"
          THEN leave(IF drv.fn = "testStream" THEN "false" ELSE "crcError")
          ELSE IF drv.bzerr = "BZ_MEM_ERROR"
          THEN leave("outOfMemory")
          ELSE IF drv.bzerr = "BZ_UNEXPECTED_EOF"
          THEN leave(IF drv.fn = "testStream" THEN "false" ELSE "compressedStreamEOF")
          ELSE IF drv.bzerr = "BZ_DATA_ERROR_MAGIC"
          THEN leave(IF NotABzip2File(drv.streamNo) THEN "false" ELSE "true")
          ELSE leave("panic")

NextDriver ==
    \/ Drv_bzReadOpen
    \/ Drv_bzRead
    \/ Drv_bzReadClose
    \/ Drv_trycat
    \/ Drv_errhandler

SpecDriver == InitDriver /\ [][NextDriver]_vars

\* What a file is, read mark by mark: the decoded bytes of its streams, how
\* many streams ended, and how the reading stopped ("end": at the end of the
\* file right after a trailer; "magic": at a mark that starts no stream;
\* "data": at a mark that fits no stream body; "eof": inside a stream, or
\* before the first).
RECURSIVE Parse(_, _, _, _, _)
Parse(file, pos, inBody, out, n) ==
    IF pos > Len(file)
    THEN [how |-> IF ~inBody /\ n >= 1 THEN "end" ELSE "eof", out |-> out, n |-> n]
    ELSE IF ~inBody
    THEN IF file[pos] = "H" THEN Parse(file, pos + 1, TRUE, out, n)
         ELSE [how |-> "magic", out |-> out, n |-> n]
    ELSE IF file[pos] = "D"
    THEN Parse(file, pos + 1, TRUE, Append(out, [kind |-> "dec", at |-> pos]), n)
    ELSE IF file[pos] = "E" THEN Parse(file, pos + 1, FALSE, out, n + 1)
    ELSE [how |-> "data", out |-> out, n |-> n]

Sequential == Parse(drv.file, 1, FALSE, <<>>, 0)

DrvDone == drv.pc = "done"
Copying == drv.fn = "uncompressStream" /\ drv.forceOverwrite
NoAllocFailure == drv.bzerr # "BZ_MEM_ERROR"

\* C11: the driver decodes the streams of a file one after another, every
\* byte read from the file and not consumed by one stream being handed to
\* the next; it returns true from the loop only after a STREAM_END with no
\* unused bytes at the end of the file; a BZ_DATA_ERROR_MAGIC on stream 2 or
\* later returns true with the output of the earlier streams kept, and on
\* stream 1 returns false, unless uncompressStream runs with force-overwrite
\* and copies the input through.
C11_ConcatenatedStreams ==
    drv.pc # "none" =>
        LET q == Sequential
            kept == SubSeq(drv.out, 1, Len(q.out))
        IN /\ drv.pc = "bzReadOpen" =>
                 /\ drv.ends = drv.streamNo /\ q.n >= drv.streamNo
                 /\ drv.fn = "uncompressStream" =>
                       drv.out = Parse(SubSeq(drv.file, 1, drv.fpos - Len(drv.unused)),
                                       1, FALSE, <<>>, 0).out
           /\ (DrvDone /\ drv.result = "true") =>
                 \/ /\ drv.bzerr = "BZ_STREAM_END" /\ drv.unused = <<>> /\ myfeof(drv)
                    /\ q.how = "end" /\ drv.streamNo = q.n
                 \/ drv.bzerr = "BZ_DATA_ERROR_MAGIC" /\ drv.streamNo >= 2
                 \/ drv.bzerr = "BZ_DATA_ERROR_MAGIC" /\ Copying
           /\ (DrvDone /\ NoAllocFailure /\ q.how = "end") =>
                 /\ drv.result = "true"
                 /\ drv.fn = "uncompressStream" => drv.out = q.out
           /\ (DrvDone /\ NoAllocFailure /\ q.how = "magic" /\ q.n >= 1) =>
                 /\ drv.result = "true"
                 /\ drv.streamNo = q.n + 1
                 /\ drv.fn = "uncompressStream" =>
                       /\ Len(drv.out) >= Len(q.out) /\ kept = q.out
                       /\ ~drv.forceOverwrite => drv.out = q.out
           /\ (DrvDone /\ NoAllocFailure /\ q.how = "magic" /\ q.n = 0) =>
                 IF Copying
                 THEN drv.result = "true" /\ drv.out = RawCopy(drv.file)
                 ELSE drv.result = "false" /\ drv.out = <<>>

C11_Witness ==
    /\ DrvDone /\ drv.result = "true" /\ drv.fn = "uncompressStream"
    /\ ~drv.forceOverwrite
    /\ drv.bzerr = "BZ_DATA_ERROR_MAGIC" /\ drv.streamNo = 2
    /\ Len(drv.out) = 1 /\ drv.buf # <<>>

(***************************************************************************)
(* The block CRC                                                           *)
(***************************************************************************)
\* The CRC register after the bytes, from the register acc.
RECURSIVE CrcOver(_, _)
CrcOver(bytes, acc) ==
    IF bytes = <<>> THEN acc
    ELSE CrcOver(Tail(bytes), BZ_UPDATE_CRC(acc, Head(bytes)))

\* C12: storedBlockCRC is the four bytes that follow the block magic; when
\* the bytes of a block have been produced and their CRC differs from it, the
\* call returns BZ_DATA_ERROR, the session stays in the block and the
\* combined CRC is left as it was; when it agrees, the block CRC is folded in.
C12_Step ==
    (pc = "bzDecompress" /\ s.state = "BZ_X_OUTPUT" /\ hist.err = "none") =>
        LET bytes == SubSeq(hist'.out, Len(hist.out) + 1, Len(hist'.out))
            crc == Not32(CrcOver(bytes, Ones32))
        IN /\ Prefix(Bytes32(s.storedBlockCRC), hist.boundary + 48, 4)
           /\ s'.storedBlockCRC = s.storedBlockCRC
           /\ IF crc # s.storedBlockCRC
              THEN /\ pc' = "caller" /\ ret' = "BZ_DATA_ERROR"
                   /\ s'.state = "BZ_X_OUTPUT"
                   /\ s'.calculatedCombinedCRC = s.calculatedCombinedCRC
                   /\ hist'.crcs = hist.crcs
              ELSE pc' # "caller" =>
                      /\ s'.state = "BZ_X_BLKHDR_1"
                      /\ s'.calculatedCombinedCRC =
                            Xor32(RotL32By1(s.calculatedCombinedCRC), crc)

C12_BlockCRC == [][C12_Step]_vars

C12_Witness ==
    /\ input = BlockCrcDamaged
    /\ pc = "caller" /\ ret = "BZ_DATA_ERROR" /\ hist.err = "BZ_DATA_ERROR"
    /\ s.state = "BZ_X_OUTPUT" /\ hist.ends = 1
    /\ hist.out = <<97, 97, 104, 97, 16>>
    /\ s.calculatedCombinedCRC = Zero32

(***************************************************************************)
(* One parsed block in both modes.                                         *)
(*                                                                         *)
(* The block is what the MTF stage leaves: nblock bytes in tt (fast) or    *)
(* ll16 (small), their counts in unzftab, origPtr and the randomised flag. *)
(* Each mode runs the end-of-block code of BZ2_decompress and then fetches *)
(* the source bytes one by one, as unRLE_obuf_to_output does.              *)
(***************************************************************************)
MaxBlock == 3               \* the longest block, in bytes
BlockBytes == {97, 98, 255} \* the byte values a block is made of

\* The session as it stands when the EOB symbol has been read.
ParsedBlock(small, bytes, origPtr, rand) ==
    LET n == Len(bytes)
        arr == [k \in 0..(n - 1) |-> bytes[k + 1]]
        uz == [c \in {bytes[k] : k \in 1..n} |->
                  Cardinality({k \in 1..n : bytes[k] = c})]
        ds == [InitDState(small) EXCEPT
                  !.state = "BZ_X_MTF_6", !.blockSize100k = 1,
                  !.tt = IF small THEN @ ELSE arr,
                  !.ll16 = IF small THEN arr ELSE @,
                  !.unzftab = uz, !.origPtr = origPtr, !.blockRandomised = rand]
    IN Machine(<<>>, InitStrm, ds, [InitLocals EXCEPT !.nblock = n],
               "BZ2_decompress", "none", InitHist)

Modes == {"fast", "small"}

InitModes ==
    /\ input = StreamEmpty
    /\ strm = InitStrm
    /\ s = InitDState(FALSE)
    /\ loc = InitLocals
    /\ pc = "caller"
    /\ ret = "none"
    /\ hist = InitHist
    /\ ref = NoRef
    /\ drv = NoDrv
    /\ \E n \in 1..MaxBlock :
       \E bytes \in [1..n -> BlockBytes], origPtr \in 0..(n - 1), rand \in {0, 1} :
          blk = [pc |-> "parsed", bytes |-> bytes, origPtr |-> origPtr, rand |-> rand,
                 fast |-> [at |-> "end of block",
                           m |-> ParsedBlock(FALSE, bytes, origPtr, rand), src |-> <<>>],
                 small |-> [at |-> "end of block",
                            m |-> ParsedBlock(TRUE, bytes, origPtr, rand), src |-> <<>>]]

InMode(mode, v) ==
    /\ blk' = [blk EXCEPT ![mode] = v]
    /\ UNCHANGED <<input, strm, s, loc, pc, ret, hist, ref, drv>>

\* Lines 469-559: the checks, the inversion of the mode and the first byte.
Blk_EndBlock(mode) ==
    /\ blk.pc = "parsed"
    /\ blk[mode].at = "end of block"
    /\ LET m == EndBlock(blk[mode].m)
       IN InMode(mode, IF m.loc.retVal = "BZ_OK"
                       THEN [at |-> "output", m |-> m, src |-> <<m.s.k0>>]
                       ELSE [at |-> "failed", m |-> m, src |-> <<>>])

\* One more source byte, as the output stage fetches it.
Blk_NextSource(mode) ==
    /\ blk.pc = "parsed"
    /\ blk[mode].at = "output"
    /\ Len(blk[mode].src) < Len(blk.bytes)
    /\ LET g == NextSource(blk[mode].m.s)
       IN InMode(mode, [blk[mode] EXCEPT !.m.s = g.ds, !.src = Append(@, g.c)])

NextModes ==
    \/ \E mode \in Modes : Blk_EndBlock(mode)
    \/ \E mode \in Modes : Blk_NextSource(mode)

SpecModes == InitModes /\ [][NextModes]_vars

\* C13: for every parsed block the first source byte and every later source
\* byte fetched from ll16/ll4 in the small mode equal those fetched from tt in
\* the fast mode, and both modes accept the block.
C13_ModeEquivalence ==
    blk.pc = "parsed" =>
        /\ blk.fast.at # "failed" /\ blk.small.at # "failed"
        /\ \A k \in 1..Min(Len(blk.fast.src), Len(blk.small.src)) :
              blk.fast.src[k] = blk.small.src[k]
        /\ (blk.fast.at = "output" /\ blk.small.at = "output") =>
              /\ blk.fast.m.s.k0 = blk.small.m.s.k0
              /\ blk.small.m.s.origPtr = blk.fast.m.s.origPtr
        /\ blk.fast.at = "output" =>
              blk.fast.m.s.nblock_used = Len(blk.fast.src)
        /\ blk.small.at = "output" =>
              blk.small.m.s.nblock_used = Len(blk.small.src)

C13_Witness ==
    /\ blk.pc = "parsed"
    /\ Len(blk.bytes) = 3 /\ blk.origPtr = 2
    /\ Len(blk.fast.src) = 3 /\ Len(blk.small.src) = 3
    /\ Cardinality({blk.small.src[k] : k \in 1..3}) = 2

(***************************************************************************)
(* The mapping table                                                       *)
(***************************************************************************)
\* Bit b of the file, the most significant bit of a byte first.
FileBit(b) ==
    LET q == b \div 8 IN
    IF q + 1 <= Len(input) THEN (input[q + 1] \div Pow2(7 - (b % 8))) % 2 ELSE 0

\* Where the mapping table of the current block starts: after the block
\* magic, the block CRC, the randomised bit and origPtr.
MappingStart == hist.boundary + 48 + 32 + 1 + 24

PresentChunks == {i \in 0..15 : FileBit(MappingStart + i) = 1}

\* The byte values the table marks: member bit j of present chunk i.
Marked ==
    {16 * i + j : i \in PresentChunks, j \in 0..15} \cap
    {v \in 0..255 :
        FileBit(MappingStart + 16
                  + 16 * Cardinality({c \in PresentChunks : c < v \div 16})
                  + (v % 16)) = 1}

MappingParsed ==
    pc = "BZ2_decompress" /\ s.state = "BZ_X_SELECTOR_1" /\ hist.err = "none"

\* C14: once the mapping table is parsed, in every chunking, inUse is true
\* exactly at the byte values whose chunk bit and member bit are 1, nothing
\* else was written, 16 + 16 * (present chunks) bits were consumed, and
\* seqToUnseq lists the in-use values in increasing order.
C14_MappingTable ==
    MappingParsed =>
        /\ TrueAt(s.inUse) = Marked
        /\ \A k \in DOMAIN s.inUse : s.inUse[k] = TRUE => k \in Marked
        /\ BitPos(M) = MappingStart + 16 + 16 * Cardinality(PresentChunks)
        /\ s.nInUse = Cardinality(Marked)
        /\ \A q \in 0..(s.nInUse - 1) : s.seqToUnseq[q] = Nth(Marked, q)

(***************************************************************************)
(* The block buffer                                                        *)
(***************************************************************************)
RunLabels == {"BZ_X_MTF_3", "BZ_X_MTF_4"}

\* The cells of the block array written so far all lie in the allocation.
Allocated(a, ds) == \A k \in DOMAIN a : 0 <= k /\ k < BlockUnit * ds.blockSize100k

C15_Bound ==
    /\ 0 <= loc.nblock /\ loc.nblock <= loc.nblockMAX
    /\ 0 <= s.save.nblock /\ s.save.nblock <= s.save.nblockMAX
    /\ loc.nblockMAX \in {0, BlockUnit * s.blockSize100k}
    /\ Allocated(s.tt, s) /\ Allocated(s.ll16, s)
    /\ s.tt # Empty => s.ttAlloc = BlockUnit * s.blockSize100k

\* The step that ends a run of es + 1 bytes (the symbol after the run may
\* be a literal, stored in the same step).
C15_Step ==
    (pc = "BZ2_decompress" /\ s.state \in RunLabels /\ loc'.nblock # loc.nblock) =>
        IF loc.nblock + loc.es + 1 > loc.nblockMAX
        THEN /\ pc' = "save_state_and_return" /\ loc'.retVal = "BZ_DATA_ERROR"
             /\ loc'.nblock = loc.nblockMAX
        ELSE \/ loc'.nblock = loc.nblock + loc.es + 1
             \/ /\ loc'.nblock = loc.nblock + loc.es + 2
                /\ loc'.nextSym \notin {BZ_RUNA, BZ_RUNB, loc.EOB}

RECURSIVE FileBits(_, _)
FileBits(b, n) == IF n = 0 THEN 0 ELSE 2 * FileBits(b, n - 1) + FileBit(b + n - 1)

\* Where origPtr stands in the current block, and the labels of the block
\* that come after it.
OrigPtrStart == hist.boundary + 48 + 32 + 1
OrigPtrLimit == 10 + BlockUnit * s.blockSize100k
BeforeOrigPtr ==
    MagicLabels \cup HeaderLabels \cup
    {"BZ_X_BCRC_1", "BZ_X_BCRC_2", "BZ_X_BCRC_3", "BZ_X_BCRC_4", "BZ_X_RANDBIT",
     "BZ_X_ORIGPTR_1", "BZ_X_ORIGPTR_2", "BZ_X_ORIGPTR_3",
     "BZ_X_CCRC_1", "BZ_X_CCRC_2", "BZ_X_CCRC_3", "BZ_X_CCRC_4", "BZ_X_IDLE"}

\* C16: a 24-bit origPtr above 10 + 100000 * blockSize100k is rejected with
\* BZ_DATA_ERROR right after its third byte, no bit of the mapping table
\* read; and the state is BZ_X_OUTPUT only with 0 <= origPtr < nblock, so a
\* block of no bytes is rejected.
C16_OrigPtrChecks ==
    /\ (hist.err = "none" /\ s.state \notin BeforeOrigPtr) =>
          /\ s.origPtr = FileBits(OrigPtrStart, 24)
          /\ s.origPtr <= OrigPtrLimit
    /\ (Failing /\ s.state = "BZ_X_ORIGPTR_3") =>
          /\ loc.retVal = "BZ_DATA_ERROR"
          /\ s.origPtr = FileBits(OrigPtrStart, 24)
          /\ s.origPtr > OrigPtrLimit
          /\ BitPos(M) = OrigPtrStart + 24
    /\ s.state = "BZ_X_OUTPUT" => (0 <= s.origPtr /\ s.origPtr < loc.nblock)

C16_Witness ==
    /\ input = OrigPtrHuge
    /\ Failing /\ s.state = "BZ_X_ORIGPTR_3" /\ loc.retVal = "BZ_DATA_ERROR"
    /\ s.origPtr = 262146 /\ strm.next_in = 18

(***************************************************************************)
(* The symbols of the MTF value stream                                     *)
(***************************************************************************)
MtfLabels ==
    {"BZ_X_MTF_1", "BZ_X_MTF_2", "BZ_X_MTF_3", "BZ_X_MTF_4", "BZ_X_MTF_5",
     "BZ_X_MTF_6"}

\* This step completes a symbol fetch and goes on: to the next fetch or to
\* the end of the block.
FetchCompletes ==
    /\ \E lll \in MtfLabels : AtFetch(lll)
    /\ \/ pc' = "BZ2_decompress" /\ s'.state \in {"BZ_X_MTF_3", "BZ_X_MTF_5"}
       \/ s'.state = "BZ_X_OUTPUT"

C17_Step ==
    FetchCompletes =>
        /\ 0 <= loc'.nextSym /\ loc'.nextSym <= loc'.alphaSize - 1
        /\ loc'.alphaSize - 1 = loc'.EOB /\ loc'.EOB = s'.nInUse + 1
        /\ ~hist'.uninit
        /\ s'.state = "BZ_X_MTF_5" =>
              /\ loc'.nextSym - 1 >= 1 /\ loc'.nextSym - 1 < s'.nInUse
              /\ s'.nInUse <= 256

C17_Arrays ==
    /\ DOMAIN s.mtfbase \subseteq 0..(256 \div MTFL_SIZE - 1)
    /\ DOMAIN s.mtfa \subseteq 0..(MTFA_SIZE - 1)
    /\ \A k \in DOMAIN s.mtfbase : 0 <= s.mtfbase[k] /\ s.mtfbase[k] <= MTFA_SIZE - MTFL_SIZE

\* C17: every symbol a completed Huffman fetch returns is in 0..alphaSize-1
\* (at most EOB = nInUse + 1), entries of perm left by an earlier block with
\* a larger alphabet notwithstanding; so the MTF position of a literal is
\* below nInUse, and mtfbase is written at 0..15 and mtfa at 0..4095 only.
C17_SymbolRange == [](C17_Arrays) /\ [][C17_Step]_vars

\* In the second block of TwoAlphabets, perm[..][3] still holds the symbol 3
\* of the first block while alphaSize is 3, and a symbol has been fetched.
C17_Witness ==
    /\ input = TwoAlphabets
    /\ pc = "BZ2_decompress" /\ s.state = "BZ_X_MTF_3" /\ hist.err = "none"
    /\ s.currBlockNo = 2 /\ loc.alphaSize = 3
    /\ 3 \in DOMAIN s.perm[loc.gPerm] /\ s.perm[loc.gPerm][3] = 3
    /\ loc.nextSym = BZ_RUNA

(***************************************************************************)
(* Group switching                                                         *)
(***************************************************************************)
\* hist.syms counts the symbols of the block's MTF value stream decoded so
\* far: in a state at a label of GET_MTF_VAL the symbol being fetched is the
\* hist.syms-th (from 0).
InFetch ==
    /\ s.state \in MtfLabels /\ hist.err = "none"
    /\ Returning => loc.retVal = "BZ_OK"

GroupOf(k) == k \div BZ_G_SIZE

C18_Group ==
    InFetch =>
        LET k == hist.syms
            g == GroupOf(k)
            v == IF pc \in {"BZ2_decompress", "save_state_and_return"} THEN loc
                 ELSE s.save
        IN /\ g < v.nSelectors
           /\ v.groupNo = g
           /\ v.groupPos = BZ_G_SIZE - 1 - (k % BZ_G_SIZE)
           /\ g \in DOMAIN s.selector
           /\ pc = "BZ2_decompress" =>
                /\ loc.gSel = s.selector[g]
                /\ loc.gLimit = loc.gSel /\ loc.gPerm = loc.gSel /\ loc.gBase = loc.gSel
                /\ loc.gMinlen = s.minLens[loc.gSel]

\* A step that completes the fetch of symbol k - 1: the next symbol, if there
\* is one, is fetched with the tables of selector[k div 50], and if there is
\* no such selector the call returns BZ_DATA_ERROR.
C18_Step ==
    (pc = "BZ2_decompress" /\ InFetch /\ hist'.syms = hist.syms + 1
        /\ loc'.nextSym # loc'.EOB) =>
        IF GroupOf(hist'.syms) >= loc.nSelectors
        THEN /\ pc' = "save_state_and_return"
             /\ loc'.retVal = "BZ_DATA_ERROR"
        ELSE \/ pc' = "save_state_and_return" /\ loc'.retVal = "BZ_DATA_ERROR"
             \/ /\ pc' = "BZ2_decompress" /\ s'.state \in {"BZ_X_MTF_3", "BZ_X_MTF_5"}
                /\ loc'.gSel = s.selector[GroupOf(hist'.syms)]
                /\ loc'.zn = s.minLens[loc'.gSel]

\* The canonical code of symbol sym under the code lengths length: codes are
\* given out in order of length and, within a length, of symbol.
RECURSIVE CodeStart(_, _, _)
CodeStart(length, alphaSize, i) ==
    LET used == {length[a] : a \in 0..(alphaSize - 1)}
        cnt(l) == Cardinality({a \in 0..(alphaSize - 1) : length[a] = l})
    IN IF \A l \in used : l >= i THEN 0
       ELSE 2 * (CodeStart(length, alphaSize, i - 1) + cnt(i - 1))

CanonCode(length, alphaSize, sym) ==
    CodeStart(length, alphaSize, length[sym])
      + Cardinality({a \in 0..(sym - 1) : length[a] = length[sym]})

\* The symbol a completed fetch returns is the one whose code, in the code
\* lengths of the group in force, is the bits the fetch consumed.
C18_Decoded ==
    (FetchCompletes /\ InFetch) =>
        LET g == s.selector[GroupOf(hist.syms)] IN
        /\ hist'.syms = hist.syms + 1
        /\ loc.zn = s.len[g][loc'.nextSym]
        /\ loc'.zvec = CanonCode(s.len[g], loc.alphaSize, loc'.nextSym)

\* C18: the k-th symbol of a block's MTF value stream is decoded with the
\* tables of group selector[k div 50] (groupNo = k div 50 and
\* groupPos = 49 - k mod 50 in every state inside its fetch, suspended or
\* not), and when k div 50 >= nSelectors the call returns BZ_DATA_ERROR.
C18_GroupSwitching == [](C18_Group) /\ [][C18_Step /\ C18_Decoded]_vars

\* GroupSwitch: a call has returned for more input inside the fetch of the
\* 51st symbol, the first of the second group.
C18_Witness ==
    /\ input = GroupSwitch
    /\ pc = "caller" /\ ret = "BZ_OK" /\ InFetch /\ s.state = "BZ_X_MTF_4"
    /\ hist.syms = BZ_G_SIZE
    /\ s.save.groupNo = 1 /\ s.save.groupPos = BZ_G_SIZE - 1
    /\ s.selector[0] = 0 /\ s.selector[1] = 1 /\ s.save.gSel = 1
    /\ hist.fed < Len(input)

(***************************************************************************)
(* Runs                                                                    *)
(***************************************************************************)
\* hist.run is the run being accumulated: its RUN symbols r_0 r_1 ..., and
\* RunWeight its length, the sum of w_i * 2^i.
RECURSIVE RunWeight(_)
RunWeight(run) ==
    IF run = <<>> THEN 0
    ELSE (IF Head(run) = BZ_RUNA THEN 1 ELSE 2) + 2 * RunWeight(Tail(run))

\* The MTF list as a list: position p is in mtfa at mtfbase[p div 16] + p mod 16.
MtfList(ds) ==
    [p \in 0..(ds.nInUse - 1) |->
        ds.mtfa[ds.mtfbase[p \div MTFL_SIZE] + (p % MTFL_SIZE)]]

MovedToFront(list, q) ==
    [p \in DOMAIN list |-> IF p = 0 THEN list[q]
                           ELSE IF p <= q THEN list[p - 1] ELSE list[p]] @@ Empty

InRun ==
    /\ s.state \in RunLabels /\ hist.err = "none"
    /\ Returning => loc.retVal = "BZ_OK"

C19_Accumulating ==
    InRun =>
        LET v == IF pc \in {"BZ2_decompress", "save_state_and_return"} THEN loc
                 ELSE s.save
        IN /\ Len(hist.run) >= 1
           /\ \A k \in 1..Len(hist.run) : hist.run[k] \in {BZ_RUNA, BZ_RUNB}
           /\ v.es = RunWeight(hist.run) - 1
           /\ v.N = Pow2(Len(hist.run))

\* A RUN symbol is added to the run: nothing of the block changes.
C19_Grows ==
    (InRun /\ hist'.syms = hist.syms + 1 /\ loc'.nextSym \in {BZ_RUNA, BZ_RUNB}) =>
        \/ pc' = "save_state_and_return" /\ loc'.retVal = "BZ_DATA_ERROR"
        \/ /\ hist'.run = Append(hist.run, loc'.nextSym)
           /\ loc'.nblock = loc.nblock
           /\ s'.unzftab = s.unzftab /\ s'.tt = s.tt /\ s'.ll16 = s.ll16
           /\ s'.mtfa = s.mtfa /\ s'.mtfbase = s.mtfbase

\* The symbol that ends the run has been fetched: the run is stored, and then
\* that symbol is dealt with in the same step (EOB ends the block, a literal
\* is stored after the run).
C19_Stored ==
    (InRun /\ hist'.syms = hist.syms + 1 /\ loc'.nextSym \notin {BZ_RUNA, BZ_RUNB}) =>
        LET w == RunWeight(hist.run)
            n == loc.nblock
            b == s.seqToUnseq[s.mtfa[s.mtfbase[0]]]
            arr == BlockArray(s')
            Was(c) == Get(s.unzftab, c)
            Now(c) == Get(s'.unzftab, c)
        IN IF n + w > loc.nblockMAX
           THEN pc' = "save_state_and_return" /\ loc'.retVal = "BZ_DATA_ERROR"
           ELSE /\ IF loc'.nextSym = loc.EOB
                   THEN \* (the end of the block has gone on to put the
                        \* inversion's links above the byte's 8 bits in tt,
                        \* and in ll16 in the place of the bytes)
                        /\ loc'.nblock = n + w
                        /\ ~s.smallDecompress =>
                              /\ DOMAIN arr = 0..(n + w - 1)
                              /\ \A k \in n..(n + w - 1) : arr[k] % 256 = b
                              /\ \A k \in 0..(n - 1) :
                                    arr[k] % 256 = BlockArray(s)[k]
                        /\ Now(b) = Was(b) + w
                        /\ \A c \in 0..255 : c # b => Now(c) = Was(c)
                        /\ MtfList(s') = MtfList(s)
                   ELSE IF n + w >= loc.nblockMAX
                   THEN pc' = "save_state_and_return" /\ loc'.retVal = "BZ_DATA_ERROR"
                   ELSE LET lit == arr[n + w] IN
                        /\ loc'.nblock = n + w + 1
                        /\ DOMAIN arr = 0..(n + w)
                        /\ \A k \in n..(n + w - 1) : arr[k] = b
                        /\ \A k \in 0..(n - 1) : arr[k] = BlockArray(s)[k]
                        /\ lit = s.seqToUnseq[MtfList(s)[loc'.nextSym - 1]]
                        /\ Now(b) = Was(b) + w + (IF lit = b THEN 1 ELSE 0)
                        /\ \A c \in 0..255 :
                              c \notin {b, lit} => Now(c) = Was(c)
                        /\ MtfList(s') = MovedToFront(MtfList(s), loc'.nextSym - 1)

\* C19: a maximal run r_0..r_{k-1} of RUN symbols appends sum w_i * 2^i
\* bytes (w = 1 for RUNA, 2 for RUNB), each seqToUnseq[front of the MTF
\* list]; unzftab of that byte and nblock grow by that count and the MTF list
\* is as it was (when the run fits in the block; otherwise BZ_DATA_ERROR).
C19_RunLength == [](C19_Accumulating) /\ [][C19_Grows /\ C19_Stored]_vars

\* GroupSwitch: the run RUNA RUNB has put five bytes 0x61 at cells 0..4 and
\* the literal after it 0x62 at cell 5.
C19_Witness ==
    /\ input = GroupSwitch
    /\ pc = "BZ2_decompress" /\ s.state = "BZ_X_MTF_5" /\ hist.err = "none"
    /\ hist.run = <<BZ_RUNA, BZ_RUNB>> /\ hist.syms = 3
    /\ loc.nblock = 6 /\ ~s.smallDecompress
    /\ \A k \in 0..4 : s.tt[k] = 97
    /\ s.tt[5] = 98
    /\ s.unzftab[97] = 5 /\ s.unzftab[98] = 1

(***************************************************************************)
(* The RUN accumulator                                                     *)
(***************************************************************************)
\* The locals of a state inside a run: the live ones, or the saved copy when
\* the call has returned.
RunLocals ==
    IF pc \in {"BZ2_decompress", "save_state_and_return"} THEN loc ELSE s.save

C20_Bound ==
    InRun =>
        /\ 2 <= RunLocals.N /\ RunLocals.N <= RunLimit
        /\ 0 <= RunLocals.es /\ RunLocals.es <= 2 * RunLimit - 2
        /\ Len(hist.run) <= 21

\* A further RUN symbol has been fetched: the weight it is added with is
\* below 2^21, and with N = 2^21 the call returns BZ_DATA_ERROR.
C20_Step ==
    (InRun /\ hist'.syms = hist.syms + 1 /\ loc'.nextSym \in {BZ_RUNA, BZ_RUNB}) =>
        IF loc.N >= RunLimit
        THEN /\ pc' = "save_state_and_return" /\ loc'.retVal = "BZ_DATA_ERROR"
             /\ loc'.es = loc.es /\ loc'.N = loc.N
        ELSE /\ loc'.N = 2 * loc.N
             /\ loc'.es - loc.es \in {loc.N, 2 * loc.N}

\* C20 (as amended): while a run is accumulated, and in every state saved at
\* a suspension inside it, 2 <= N <= 2^21 and es <= 2^22 - 2; N is below
\* 2^21 whenever it is added to es, and a RUN symbol fetched with N = 2^21
\* (the 22nd of a run) makes BZ2_decompress return BZ_DATA_ERROR.
C20_RunAccumulator == [](C20_Bound) /\ [][C20_Step]_vars

\* C20 as stated: N < 2^21 in every state inside a run.
C20_AsStated == InRun => RunLocals.N < RunLimit

\* LongRun: a call has returned for more input after the 21st RUNA, with
\* N = 2^21 in the saved state.
C20_Witness ==
    /\ input = LongRun
    /\ pc = "caller" /\ ret = "BZ_OK" /\ InRun
    /\ Len(hist.run) = 21
    /\ s.save.N = RunLimit /\ s.save.es = RunLimit + 5

(***************************************************************************)
(* The run loop alone (lines 384-403)                                      *)
(***************************************************************************)
\* The runs tried: the first FreeSyms symbols are any of RUNA and RUNB, each
\* later symbol repeats the one before it (so the all-RUNA and the all-RUNB
\* run of every length are among them).
FreeSyms == 4

\* The longest block: 9 * 100000 bytes.
MaxBlockBytes == 9 * BlockUnit

InitRuns ==
    /\ input = StreamEmpty
    /\ strm = InitStrm
    /\ s = InitDState(FALSE)
    /\ loc = InitLocals
    /\ pc = "caller"
    /\ ret = "none"
    /\ hist = InitHist
    /\ ref = NoRef
    /\ drv = NoDrv
    /\ blk = [pc |-> "symbol", es |-> 0, N |-> 0, run |-> <<>>]

\* The machine at the head of the loop of line 378 (first symbol) or at the
\* condition of line 399 (later ones), the symbol sym just fetched.
RunMachine(b, sym) ==
    Machine(<<>>, InitStrm, InitDState(FALSE),
            [InitLocals EXCEPT !.es = b.es, !.N = b.N, !.nextSym = sym,
                               !.EOB = 2, !.groupPos = 1],
            "BZ2_decompress", "none", [InitHist EXCEPT !.run = b.run])

RunOutcome(b, sym, m) ==
    IF m.pc = "save_state_and_return"
    THEN [pc |-> "rejected", es |-> m.loc.es, N |-> m.loc.N, run |-> Append(b.run, sym)]
    ELSE [pc |-> "run", es |-> m.loc.es, N |-> m.loc.N, run |-> m.hist.run]

Tried(b, sym) == Len(b.run) >= FreeSyms => sym = b.run[Len(b.run)]

Run_First ==
    /\ blk.pc = "symbol"
    /\ \E sym \in {BZ_RUNA, BZ_RUNB} :
          blk' = RunOutcome(blk, sym, MainLoop(RunMachine(blk, sym)))
    /\ UNCHANGED <<input, strm, s, loc, pc, ret, hist, ref, drv>>

Run_More ==
    /\ blk.pc = "run"
    /\ \E sym \in {BZ_RUNA, BZ_RUNB} :
          /\ Tried(blk, sym)
          /\ blk' = RunOutcome(blk, sym, RunCond(RunMachine(blk, sym)))
    /\ UNCHANGED <<input, strm, s, loc, pc, ret, hist, ref, drv>>

\* Line 401: es++ when the symbol after the run is no RUN symbol.
Run_End ==
    /\ blk.pc = "run"
    /\ blk' = [blk EXCEPT !.pc = "accepted", !.es = @ + 1]
    /\ UNCHANGED <<input, strm, s, loc, pc, ret, hist, ref, drv>>

NextRuns == Run_First \/ Run_More \/ Run_End

SpecRuns == InitRuns /\ [][NextRuns]_vars

\* C21: after any run the guard accepts, 1 <= es < 2^22 and es is the
\* encoded length of the run (so es has not wrapped in 32 bits, nor has the
\* sum on the way); every run the guard rejects has an encoded length above
\* 900000, that is, every run of at most 900000 passes the guard.
C21_RunGuard ==
    /\ blk.pc \in {"run", "accepted"} =>
          /\ blk.N = Pow2(Len(blk.run)) /\ blk.N <= RunLimit
          /\ blk.es < 2 * RunLimit
    /\ blk.pc = "run" => blk.es = RunWeight(blk.run) - 1 /\ blk.es >= 0
    /\ blk.pc = "accepted" => blk.es = RunWeight(blk.run) /\ blk.es >= 1
    /\ blk.pc = "rejected" => RunWeight(blk.run) > MaxBlockBytes
    /\ RunWeight(blk.run) <= MaxBlockBytes => blk.pc # "rejected"

\* The longest run accepted: 21 RUNB, 2^22 - 2 bytes.
C21_Witness ==
    /\ blk.pc = "accepted" /\ Len(blk.run) = 21
    /\ \A k \in 1..21 : blk.run[k] = BZ_RUNB
    /\ blk.es = 2 * RunLimit - 2

(***************************************************************************)
(* Code lengths                                                            *)
(***************************************************************************)
\* The locals of the call: the live ones, or the saved copy between calls.
Locals ==
    IF pc \in {"BZ2_decompress", "save_state_and_return"} THEN loc ELSE s.save

NoError == hist.err = "none" /\ (Returning => loc.retVal = "BZ_OK")

DataError == pc' = "save_state_and_return" /\ loc'.retVal = "BZ_DATA_ERROR"

LenRange == 1..20

C22_Checked ==
    /\ (NoError /\ s.state \in {"BZ_X_CODING_2", "BZ_X_CODING_3"}) =>
          Locals.curr \in LenRange
    /\ hist.err = "none" =>
          \A t \in DOMAIN s.len : \A i \in DOMAIN s.len[t] : s.len[t][i] \in LenRange
    /\ (NoError /\ s.state \in MtfLabels) =>
          \A t \in 0..(Locals.nGroups - 1) : \A i \in 0..(Locals.alphaSize - 1) :
             /\ i \in DOMAIN s.len[t]
             /\ s.len[t][i] \in LenRange

\* The three fetches of a coding table: the 5-bit start value, the bit that
\* ends a symbol's length and the bit that raises or lowers curr.
C22_Step ==
    /\ (AtFetch("BZ_X_CODING_1") /\ NoError) =>
          LET v == FileBits(BitPos(M), 5) IN
          /\ BitPos(M)' = BitPos(M) + 5
          /\ loc'.curr = v
          /\ IF v \in LenRange THEN s'.state = "BZ_X_CODING_2" /\ pc' = pc
             ELSE DataError /\ s'.len = s.len
    /\ (AtFetch("BZ_X_CODING_3") /\ NoError) =>
          LET v == loc.curr + (IF FileBit(BitPos(M)) = 0 THEN 1 ELSE -1) IN
          /\ BitPos(M)' = BitPos(M) + 1
          /\ loc'.curr = v
          /\ IF v \in LenRange THEN s'.state = "BZ_X_CODING_2" /\ pc' = pc
             ELSE DataError /\ s'.len = s.len
    /\ (AtFetch("BZ_X_CODING_2") /\ NoError) =>
          /\ BitPos(M)' = BitPos(M) + 1
          /\ IF FileBit(BitPos(M)) = 1
             THEN s'.state = "BZ_X_CODING_3" /\ s'.len = s.len /\ loc'.curr = loc.curr
             ELSE /\ s'.len[loc.t][loc.i] = loc.curr
                  /\ loc.curr \in LenRange
                  /\ ~DataError

\* C22: curr is in 1..20 whenever a further bit is read for it; a start value
\* or an adjusted value outside 1..20 returns BZ_DATA_ERROR with no further
\* bit read and nothing stored; so every len[t][i] stored is in 1..20, and
\* once the tables are read that is every len[t][i], t < nGroups,
\* i < alphaSize.
C22_CodeLengths == [](C22_Checked) /\ [][C22_Step]_vars

\* LenUp: the start value 20 raised to 21.
C22_Witness ==
    /\ input = LenUp
    /\ Failing /\ loc.retVal = "BZ_DATA_ERROR" /\ s.state = "BZ_X_CODING_3"
    /\ loc.curr = 21 /\ loc.t = 0 /\ loc.i = 0
    /\ \A i \in DOMAIN s.len[0] : FALSE

(***************************************************************************)
(* Selectors                                                               *)
(***************************************************************************)
AfterSelectors ==
    {"BZ_X_CODING_1", "BZ_X_CODING_2", "BZ_X_CODING_3"} \cup MtfLabels

C23_Range ==
    /\ (NoError /\ s.state = "BZ_X_SELECTOR_3") =>
          /\ 0 <= Locals.j /\ Locals.j < Locals.nGroups
          /\ \A k \in 0..(Locals.i - 1) :
                k < BZ_MAX_SELECTORS =>
                   /\ k \in DOMAIN s.selectorMtf
                   /\ s.selectorMtf[k] \in 0..(Locals.nGroups - 1)
    /\ (NoError /\ s.state \in AfterSelectors) =>
          /\ Locals.nSelectors >= 1
          /\ \A k \in 0..(Locals.nSelectors - 1) :
                /\ k \in DOMAIN s.selector
                /\ s.selector[k] \in 0..(Locals.nGroups - 1)
                /\ s.selectorMtf[k] \in 0..(Locals.nGroups - 1)
                /\ k = 0 => s.selector[k] = s.selectorMtf[k]
                /\ k > 0 => (s.selectorMtf[k] = 0 <=> s.selector[k] = s.selector[k - 1])
    /\ (NoError /\ s.state \in MtfLabels /\ pc = "BZ2_decompress") =>
          /\ loc.gSel \in 0..(loc.nGroups - 1)
          /\ loc.gSel \in DOMAIN s.minLens
          /\ loc.gLimit = loc.gSel /\ loc.gPerm = loc.gSel /\ loc.gBase = loc.gSel

\* A 1 bit of a selector code: the nGroups-th is an error.
C23_Step ==
    (AtFetch("BZ_X_SELECTOR_3") /\ NoError /\ FileBit(BitPos(M)) = 1) =>
        /\ loc'.j = loc.j + 1
        /\ IF loc.j + 1 >= loc.nGroups THEN DataError /\ s'.selectorMtf = s.selectorMtf
           ELSE s'.state = "BZ_X_SELECTOR_3" /\ pc' = pc

\* C23: a selector code with nGroups or more 1 bits returns BZ_DATA_ERROR;
\* after the inverse move-to-front every selector[i], i < nSelectors, is in
\* 0..nGroups-1, and so is the group GET_MTF_VAL selects.
C23_Selectors == [](C23_Range) /\ [][C23_Step]_vars

\* SelectorLong: the second selector code is 11 with two groups.
C23_Witness ==
    /\ input = SelectorLong
    /\ Failing /\ loc.retVal = "BZ_DATA_ERROR" /\ s.state = "BZ_X_SELECTOR_3"
    /\ loc.nGroups = 2 /\ loc.j = 2 /\ loc.i = 1
    /\ s.selectorMtf[0] = 0

(***************************************************************************)
(* Block header constraints                                                *)
(***************************************************************************)
MappingLabels == {"BZ_X_MAPPING_1", "BZ_X_MAPPING_2"}
MappingEnd == MappingStart + 16 + 16 * Cardinality(PresentChunks)

C25_Past ==
    /\ (NoError /\ s.state \in {"BZ_X_SELECTOR_1", "BZ_X_SELECTOR_2", "BZ_X_SELECTOR_3"}
                                  \cup AfterSelectors) =>
          /\ s.nInUse >= 1 /\ s.nInUse = Cardinality(TrueAt(s.inUse))
          /\ Locals.alphaSize = s.nInUse + 2
    /\ (NoError /\ s.state \in {"BZ_X_SELECTOR_2", "BZ_X_SELECTOR_3"} \cup AfterSelectors) =>
          /\ 2 <= Locals.nGroups /\ Locals.nGroups <= BZ_N_GROUPS
    /\ (NoError /\ s.state \in {"BZ_X_SELECTOR_3"} \cup AfterSelectors) =>
          Locals.nSelectors >= 1

C25_Step ==
    /\ (NoError /\ (\E lll \in MappingLabels : AtFetch(lll))
           /\ (DataError \/ s'.state \notin MappingLabels)) =>
          /\ s'.nInUse = Cardinality(TrueAt(s'.inUse))
          /\ BitPos(M)' = MappingEnd
          /\ IF s'.nInUse = 0 THEN DataError
             ELSE s'.state = "BZ_X_SELECTOR_1" /\ pc' = pc
    /\ (NoError /\ AtFetch("BZ_X_SELECTOR_1")) =>
          LET v == FileBits(BitPos(M), 3) IN
          /\ BitPos(M) = MappingEnd /\ BitPos(M)' = MappingEnd + 3
          /\ loc'.nGroups = v
          /\ IF v < 2 \/ v > 6 THEN DataError
             ELSE s'.state = "BZ_X_SELECTOR_2" /\ pc' = pc
    /\ (NoError /\ AtFetch("BZ_X_SELECTOR_2")) =>
          LET v == FileBits(BitPos(M), 15) IN
          /\ BitPos(M)' = MappingEnd + 18
          /\ loc'.nSelectors = v
          /\ IF v = 0 THEN DataError
             ELSE s'.state = "BZ_X_SELECTOR_3" /\ pc' = pc

\* C25: the parser is past the mapping table only with nInUse >= 1, past
\* nGroups only with 2 <= nGroups <= 6 and past nSelectors only with
\* nSelectors >= 1; an empty mapping table, an nGroups outside 2..6 and
\* nSelectors = 0 each return BZ_DATA_ERROR on the step that reads the last
\* bit of the field.
C25_HeaderConstraints == [](C25_Past) /\ [][C25_Step]_vars

\* EmptyMap: no chunk is marked; the error comes with the 16th chunk bit.
C25_Witness ==
    /\ input = EmptyMap
    /\ Failing /\ loc.retVal = "BZ_DATA_ERROR" /\ s.state = "BZ_X_MAPPING_1"
    /\ s.nInUse = 0 /\ loc.i = 16
    /\ 8 * strm.next_in - s.bsLive = MappingStart + 16

(***************************************************************************)
(* Errors of the symbol fetch                                              *)
(***************************************************************************)
FirstLabels == {"BZ_X_MTF_1", "BZ_X_MTF_3", "BZ_X_MTF_5"}
NextLabels == {"BZ_X_MTF_2", "BZ_X_MTF_4", "BZ_X_MTF_6"}

\* The label of the 1-bit fetch of the GET_MTF_VAL the state is in.
BitLabel ==
    CASE s.state \in {"BZ_X_MTF_1", "BZ_X_MTF_2"} -> "BZ_X_MTF_2"
      [] s.state \in {"BZ_X_MTF_3", "BZ_X_MTF_4"} -> "BZ_X_MTF_4"
      [] OTHER -> "BZ_X_MTF_6"

C26_Lengths ==
    (NoError /\ s.state \in MtfLabels) =>
        /\ Locals.gMinlen \in LenRange
        /\ s.state \in FirstLabels => Locals.zn = Locals.gMinlen
        /\ s.state \in NextLabels => Locals.zn > Locals.gMinlen /\ Locals.zn <= 21
        /\ pc = "BZ2_decompress" =>
              /\ DOMAIN s.limit[loc.gLimit] = 0..(BZ_MAX_CODE_LEN - 1)
              /\ DOMAIN s.base[loc.gBase] = 0..(BZ_MAX_CODE_LEN - 1)
              /\ DOMAIN s.perm[loc.gPerm] \subseteq 0..(BZ_MAX_ALPHA_SIZE - 1)

\* One fetch of GET_MTF_VAL, against the bits of the file: the code so far
\* is zv and has zn bits.
C26_Step ==
    (NoError /\ \E lll \in MtfLabels : AtFetch(lll)) =>
        LET zn == loc.zn
            zv == IF s.state \in FirstLabels THEN FileBits(BitPos(M), zn)
                  ELSE 2 * loc.zvec + FileBit(BitPos(M))
        IN IF zn > 20 THEN DataError /\ s.state \in NextLabels
           ELSE IF zv > s.limit[loc.gLimit][zn]
           THEN /\ pc' = pc /\ s'.state = BitLabel
                /\ loc'.zn = zn + 1 /\ loc'.zvec = zv
                /\ hist'.syms = hist.syms
           ELSE LET d == zv - s.base[loc.gBase][zn] IN
                IF d < 0 \/ d >= BZ_MAX_ALPHA_SIZE THEN DataError
                ELSE /\ d \in DOMAIN s.perm[loc.gPerm]
                     /\ loc'.nextSym = s.perm[loc.gPerm][d]
                     /\ hist'.syms = hist.syms + 1
                     /\ ~hist'.uninit

\* C26: a code that reaches zn > 20 without zvec <= limit[zn], and a
\* zvec - base[zn] outside 0..257, return BZ_DATA_ERROR; limit and base are
\* read at zn <= 20 only and perm inside 0..257 only.
C26_FetchErrors == [](C26_Lengths) /\ [][C26_Step]_vars

\* CodeTooLong: twenty-one 1 bits with the code 11 unassigned.
C26_Witness ==
    /\ input = CodeTooLong
    /\ Failing /\ loc.retVal = "BZ_DATA_ERROR" /\ s.state = "BZ_X_MTF_2"
    /\ loc.zn = 21 /\ loc.zvec = 2097151
    /\ hist.syms = 0

(***************************************************************************)
(* The move-to-front structure alone: the accesses of lines 422-456 on the *)
(* structure of lines 361-373, beside a plain list of 256 entries          *)
(***************************************************************************)
\* The positions accessed in turn, Stride accesses a step, until the
\* structure is about to be compacted (mtfbase[0] <= FreeZone); from there
\* on FreeSteps accesses, one a step, at any of the positions FreePos.
Walks == {<<16>>, <<255>>, <<31, 128, 200>>, <<255, 0, 17, 15, 100, 16, 1, 240>>}
FreePos == {0, 15, 16, 31, 128, 255}
FreeZone == 2
FreeSteps == 4
Stride == 48

\* nns, ucs and trail: the positions accessed by the last step, the bytes
\* returned and mtfbase[] after each of these accesses.
MtfStart(walk) ==
    [pc |-> "walk", walk |-> walk, acc |-> 0, left |-> FreeSteps,
     nns |-> <<>>, ucs |-> <<>>, trail |-> <<>>,
     ds |-> MtfInit([mtfa |-> Empty, mtfbase |-> Empty, nInUse |-> 256]),
     plain |-> [p \in 0..255 |-> p]]

InitMtf ==
    /\ input = StreamEmpty
    /\ strm = InitStrm
    /\ s = InitDState(FALSE)
    /\ loc = InitLocals
    /\ pc = "caller"
    /\ ret = "none"
    /\ hist = InitHist
    /\ ref = NoRef
    /\ drv = NoDrv
    /\ \E walk \in Walks : blk = MtfStart(walk)

\* uc = MTF(nn) on the structure, and the same access on the plain list.
MtfOutcome(b, nn) ==
    LET a == MtfAccess(b.ds, nn) IN
    [b EXCEPT !.ds = a.ds, !.acc = @ + 1, !.nns = Append(@, nn),
              !.ucs = Append(@, a.uc), !.trail = Append(@, a.ds.mtfbase),
              !.plain = MovedToFront(@, nn)]

\* The next k accesses of the walk, or fewer if the free zone is reached.
\* (The k accesses are made half by half to keep the evaluation shallow.)
RECURSIVE MtfWalk(_, _)
MtfWalk(b, k) ==
    IF k = 0 \/ b.ds.mtfbase[0] <= FreeZone THEN b
    ELSE IF k = 1 THEN MtfOutcome(b, b.walk[(b.acc % Len(b.walk)) + 1])
    ELSE MtfWalk(MtfWalk(b, k \div 2), k - k \div 2)

Fresh(b) == [b EXCEPT !.nns = <<>>, !.ucs = <<>>, !.trail = <<>>]

Mtf_Walk ==
    /\ blk.pc = "walk"
    /\ LET b == MtfWalk(Fresh(blk), Stride)
       IN blk' = [b EXCEPT !.pc = IF b.ds.mtfbase[0] <= FreeZone THEN "free" ELSE "walk"]
    /\ UNCHANGED <<input, strm, s, loc, pc, ret, hist, ref, drv>>

Mtf_Free ==
    /\ blk.pc = "free"
    /\ blk.left > 0
    /\ \E nn \in FreePos : blk' = [MtfOutcome(Fresh(blk), nn) EXCEPT !.left = @ - 1]
    /\ UNCHANGED <<input, strm, s, loc, pc, ret, hist, ref, drv>>

NextMtf == Mtf_Walk \/ Mtf_Free

SpecMtf == InitMtf /\ [][NextMtf]_vars

(***************************************************************************)
(* The two-level structure against the plain list                          *)
(***************************************************************************)
InMtf == blk.pc \in {"walk", "free"}

\* A plain move-to-front list accessed at the positions nns[lo..hi] in
\* turn: the list left and the entries returned, after those of run. (The
\* accesses are made half by half to keep the evaluation shallow.)
RECURSIVE PlainRun(_, _, _, _)
PlainRun(run, nns, lo, hi) ==
    IF lo > hi \/ nns[lo] \notin DOMAIN run.list THEN run
    ELSE IF lo = hi
        THEN [list |-> MovedToFront(run.list, nns[lo]),
              ucs |-> Append(run.ucs, run.list[nns[lo]])]
    ELSE PlainRun(PlainRun(run, nns, lo, (lo + hi) \div 2), nns, (lo + hi) \div 2 + 1, hi)

\* C27: the structure mtfa/mtfbase behaves as a plain move-to-front list of
\* 256 entries that starts as 0..255: after any sequence of accesses its
\* logical order (block i read from mtfbase[i] for 16 entries) is the plain
\* list, and every access at a position n in 0..255, on the fast path or the
\* general one and across a compaction, returns the n-th entry of the list
\* and leaves the list with that entry moved to the front.
C27_Plain == InMtf => MtfList(blk.ds) = blk.plain

C27_Step ==
    (InMtf /\ blk'.acc > blk.acc) =>
        /\ Len(blk'.nns) = blk'.acc - blk.acc
        /\ \A k \in 1..Len(blk'.nns) : blk'.nns[k] \in 0..255
        /\ PlainRun([list |-> MtfList(blk.ds), ucs |-> <<>>], blk'.nns, 1, Len(blk'.nns))
              = [list |-> MtfList(blk'.ds), ucs |-> blk'.ucs]

C27_MtfEquivalence == [](C27_Plain) /\ [][C27_Step]_vars

\* A general-path access that follows a compaction, in the mixed walk.
C27_Witness ==
    /\ blk.pc = "free" /\ Len(blk.walk) > 1
    /\ blk.acc > MTFA_SIZE - 256
    /\ blk.nns = <<255>>
    /\ blk.ds.mtfbase[0] = MTFA_SIZE - 256 - 1
    /\ blk.ucs = <<blk.plain[0]>>

(***************************************************************************)
(* The layout of the two-level structure                                   *)
(***************************************************************************)
LastBlock == 256 \div MTFL_SIZE - 1

InOrder(mtfbase) ==
    /\ DOMAIN mtfbase = 0..LastBlock
    /\ mtfbase[0] >= 0
    /\ \A i \in 0..(LastBlock - 1) : mtfbase[i] + MTFL_SIZE <= mtfbase[i + 1]
    /\ mtfbase[LastBlock] + MTFL_SIZE <= MTFA_SIZE

\* An access of the free zone has just been made at position nn.
Accessed(nn) == InMtf /\ blk'.acc = blk.acc + 1 /\ blk'.nns = <<nn>>

\* C28: after every access the sixteen blocks of 16 bytes lie in order
\* inside mtfa[0..4095] without overlap: 0 <= mtfbase[0], mtfbase[i] + 16 <=
\* mtfbase[i+1] for i = 0..14 and mtfbase[15] + 16 <= 4096; an access that
\* brings mtfbase[0] to 0 leaves the structure compacted, mtfbase[i] =
\* 4096 - 16*(16 - i), with the logical list as the access made it.
C28_Layout ==
    InMtf =>
        /\ InOrder(blk.ds.mtfbase)
        /\ \A k \in 1..Len(blk.trail) : InOrder(blk.trail[k])
        /\ DOMAIN blk.ds.mtfa \subseteq 0..(MTFA_SIZE - 1)

C28_Step ==
    \A nn \in MTFL_SIZE..255 :
        (Accessed(nn) /\ blk.ds.mtfbase[0] = 1) =>
            /\ \A i \in 0..LastBlock :
                  blk'.ds.mtfbase[i] = MTFA_SIZE - MTFL_SIZE * (LastBlock + 1 - i)
            /\ MtfList(blk'.ds) = MovedToFront(MtfList(blk.ds), nn)

C28_MtfLayout == [](C28_Layout) /\ [][C28_Step]_vars

\* The structure just compacted by an access in the last block.
C28_Witness ==
    /\ InMtf /\ blk.walk = <<255>>
    /\ blk.acc = MTFA_SIZE - 256
    /\ blk.nns = <<255>>
    /\ blk.ds.mtfbase[0] = MTFA_SIZE - 256
    /\ blk.ds.mtfbase[LastBlock] = MTFA_SIZE - MTFL_SIZE

(***************************************************************************)
(* cftab                                                                   *)
(***************************************************************************)
\* cftab[0..256] is non-decreasing with every entry in 0..nblock.
Ordered(cftab, nblock) ==
    /\ 0..256 \subseteq DOMAIN cftab
    /\ \A i \in 0..256 : 0 <= cftab[i] /\ cftab[i] <= nblock
    /\ \A i \in 1..256 : cftab[i - 1] <= cftab[i]

Occurrences(bytes, b) == Cardinality({k \in 1..Len(bytes) : bytes[k] = b})

\* cftab as line 482-484 build it for the parsed block of the mode.
Built(mode) == MakeCftab(blk[mode].m.s.unzftab)

\* C29: cftab as first built has cftab[0] = 0 and cftab[b+1] - cftab[b] the
\* number of occurrences of byte b in the block; from the checks on, in the
\* small mode and in the fast mode (whose inversion pass has counted every
\* cftab[b] up to the first-built cftab[b+1]), while the source bytes are
\* fetched, cftab[0..256] is non-decreasing with every entry in 0..nblock.
\* The same order and range hold in every state of a decoding session in
\* which the block is being output.
C29_CftabInvariant ==
    /\ blk.pc = "parsed" =>
          \A mode \in Modes :
              /\ Built(mode)[0] = 0
              /\ \A b \in 0..255 :
                    Built(mode)[b + 1] - Built(mode)[b] = Occurrences(blk.bytes, b)
              /\ blk[mode].at = "output" =>
                    /\ Ordered(blk[mode].m.s.cftab, Len(blk.bytes))
                    /\ blk[mode].m.loc.nblock = Len(blk.bytes)
                    /\ mode = "small" => blk[mode].m.s.cftab = Built(mode)
                    /\ mode = "fast" =>
                          /\ \A b \in 0..255 :
                                blk[mode].m.s.cftab[b] = Built(mode)[b + 1]
                          /\ blk[mode].m.s.cftab[256] = Len(blk.bytes)
    /\ s.state = "BZ_X_OUTPUT" => Ordered(s.cftab, Locals.nblock)

\* Both modes fetching the source bytes of the block b, a, b.
C29_Witness ==
    /\ blk.pc = "parsed" /\ blk.bytes = <<98, 97, 98>>
    /\ blk.fast.at = "output" /\ Len(blk.fast.src) = 2
    /\ blk.small.at = "output" /\ Len(blk.small.src) = 2
    /\ blk.fast.m.s.cftab[97] = 1 /\ blk.fast.m.s.cftab[98] = 3
    /\ blk.small.m.s.cftab[97] = 0 /\ blk.small.m.s.cftab[98] = 1
    /\ blk.small.m.s.cftab[99] = 3

(***************************************************************************)
(* The byte counts at the end of the block                                 *)
(***************************************************************************)
Counted(unzftab) == SumOver(unzftab, DOMAIN unzftab)

\* This step decodes EOB with the run before it, if any, stored whole: the
\* loop of line 378 is left by the break of line 380.
EobReached ==
    /\ \E lll \in MtfLabels : AtFetch(lll)
    /\ hist'.syms = hist.syms + 1
    /\ loc'.nextSym = loc'.EOB
    /\ loc'.es = 0

\* C30: between the symbol fetches of a block, and when EOB is reached, the
\* counts unzftab[0..255] sum to nblock, each within 0..nblock; so at EOB
\* cftab[256] = nblock, and the only BZ_DATA_ERROR of lines 472-497 is the one
\* of the origPtr test: the unzftab range, cftab range and cftab order tests
\* never fail.
C30_Sum ==
    (s.state \in MtfLabels \cup {"BZ_X_OUTPUT"} /\ NoError) =>
        /\ Counted(s.unzftab) = Locals.nblock
        /\ DOMAIN s.unzftab \subseteq 0..255
        /\ \A b \in DOMAIN s.unzftab : 0 <= s.unzftab[b] /\ s.unzftab[b] <= Locals.nblock

C30_Step ==
    EobReached =>
        /\ Counted(s'.unzftab) = loc'.nblock
        /\ MakeCftab(s'.unzftab)[256] = loc'.nblock
        /\ IF OrigPtrBad(s'.origPtr, loc'.nblock)
           THEN DataError /\ s'.state \in MtfLabels
           ELSE /\ pc' = "save_state_and_return" /\ loc'.retVal = "BZ_OK"
                /\ s'.state = "BZ_X_OUTPUT"
                /\ s'.cftab[256] = loc'.nblock

C30_CountsSumToNblock == [](C30_Sum) /\ [][C30_Step]_vars

\* The end of a block of TwoAlphabets that holds several byte values.
C30_Witness ==
    /\ input = TwoAlphabets
    /\ s.state = "BZ_X_OUTPUT" /\ NoError
    /\ Locals.nblock > 1
    /\ Cardinality(DOMAIN s.unzftab) > 1
    /\ Counted(s.unzftab) = Locals.nblock
    /\ s.cftab[256] = Locals.nblock

(***************************************************************************)
(* More selectors than BZ_MAX_SELECTORS (lines 285-302)                    *)
(***************************************************************************)
\* Files of one block over 0x61 with two groups and S selectors, S about
\* BZ_MAX_SELECTORS: selectors 0..17989 are coded 0, from 17990 on the even
\* ones are coded 10 and the odd ones 0; two coding tables of lengths 1, 2, 2
\* follow, then zero bits.
ClampCounts == {18003, 18010}
Zeros(n) == [k \in 1..n |-> 0]
ClampHead ==
    <<66, 90, 104, 49, 49, 65, 89, 38, 83, 89, 0, 0, 0, 0, 0, 0, 0, 1, 0, 32, 0>>
ClampFile(S) ==
    CASE S = 18003 ->
          ClampHead \o <<40, 202, 96>> \o Zeros(2248) \o
          <<73, 36, 144, 80, 20, 0, 0>>
      [] S = 18010 ->
          ClampHead \o <<40, 203, 64>> \o Zeros(2248) \o
          <<73, 36, 146, 72, 20, 5, 0, 0>>

\* The session is taken up where selector Near is about to be read.
Near == 17990
ForwardMax == 32768

\* The step the decoder takes in m when the whole file is supplied in one
\* call and the allocations succeed.
StepOp(m) ==
    IF m.pc = "caller" THEN CallOp(m, Len(m.input))
    ELSE IF m.pc = "bzDecompress" THEN BZ2_decompress_entry(m, 0)
    ELSE IF m.s.bsLive < Width(m) THEN GET_BITS_load(m)
    ELSE CASE m.s.state = "BZ_X_MAGIC_1" -> X_MAGIC_1(m)
           [] m.s.state = "BZ_X_MAGIC_2" -> X_MAGIC_2(m)
           [] m.s.state = "BZ_X_MAGIC_3" -> X_MAGIC_3(m)
           [] m.s.state = "BZ_X_MAGIC_4" -> X_MAGIC_4(m, TRUE, TRUE)
           [] m.s.state = "BZ_X_BLKHDR_1" -> X_BLKHDR_1(m)
           [] m.s.state = "BZ_X_BLKHDR_2" -> X_BLKHDR_2(m)
           [] m.s.state = "BZ_X_BLKHDR_3" -> X_BLKHDR_3(m)
           [] m.s.state = "BZ_X_BLKHDR_4" -> X_BLKHDR_4(m)
           [] m.s.state = "BZ_X_BLKHDR_5" -> X_BLKHDR_5(m)
           [] m.s.state = "BZ_X_BLKHDR_6" -> X_BLKHDR_6(m)
           [] m.s.state = "BZ_X_BCRC_1" -> X_BCRC_1(m)
           [] m.s.state = "BZ_X_BCRC_2" -> X_BCRC_2(m)
           [] m.s.state = "BZ_X_BCRC_3" -> X_BCRC_3(m)
           [] m.s.state = "BZ_X_BCRC_4" -> X_BCRC_4(m)
           [] m.s.state = "BZ_X_RANDBIT" -> X_RANDBIT(m)
           [] m.s.state = "BZ_X_ORIGPTR_1" -> X_ORIGPTR_1(m)
           [] m.s.state = "BZ_X_ORIGPTR_2" -> X_ORIGPTR_2(m)
           [] m.s.state = "BZ_X_ORIGPTR_3" -> X_ORIGPTR_3(m)
           [] m.s.state = "BZ_X_MAPPING_1" -> X_MAPPING_1(m)
           [] m.s.state = "BZ_X_MAPPING_2" -> X_MAPPING_2(m)
           [] m.s.state = "BZ_X_SELECTOR_1" -> X_SELECTOR_1(m)
           [] m.s.state = "BZ_X_SELECTOR_2" -> X_SELECTOR_2(m)
           [] m.s.state = "BZ_X_SELECTOR_3" -> X_SELECTOR_3(m)

Arrived(m) ==
    m.pc = "BZ2_decompress" /\ m.s.state = "BZ_X_SELECTOR_3" /\ m.loc.i >= Near

\* At most n steps from m, up to the state Arrived. (Half by half, to keep
\* the evaluation shallow.)
RECURSIVE Forward(_, _)
Forward(m, n) ==
    IF n = 0 \/ Arrived(m) THEN m
    ELSE IF n = 1 THEN StepOp(m)
    ELSE Forward(Forward(m, n \div 2), n - n \div 2)

InitClamp ==
    \E S \in ClampCounts :
        LET m == Forward(Machine(ClampFile(S), InitStrm, InitDState(FALSE), InitLocals,
                                 "caller", "none", InitHist), ForwardMax)
        IN /\ input = m.input
           /\ strm = m.strm
           /\ s = m.s
           /\ loc = m.loc
           /\ pc = m.pc
           /\ ret = m.ret
           /\ hist = m.hist
           /\ ref = Direct
           /\ drv = NoDrv
           /\ blk = NoBlk

NextClamp ==
    \/ GET_BITS_byte
    \/ GET_BITS_suspend
    \/ BZ_X_SELECTOR_3
    \/ BZ_X_CODING_1
    \/ BZ_X_CODING_2
    \/ BZ_X_CODING_3
    \/ BZ_X_MTF_1
    \/ BZ_X_MTF_3
    \/ save_state_and_return
    \/ bzDecompress_ret

SpecClamp == InitClamp /\ [][NextClamp]_vars

\* The nSelectors field of the file, where the selector codes start, and
\* where selector code k starts: the codes before PlainCodes are single 0
\* bits, a later one ends with its first 0 bit.
SelectorField == FileBits(MappingEnd + 3, 15)
SelectorsStart == MappingEnd + 3 + 15
PlainCodes == BZ_MAX_SELECTORS - 12

RECURSIVE CodeEnd(_)
CodeEnd(p) == IF FileBit(p) = 0 THEN p + 1 ELSE CodeEnd(p + 1)

RECURSIVE SelectorAt(_)
SelectorAt(k) ==
    IF k <= PlainCodes THEN SelectorsStart + k ELSE CodeEnd(SelectorAt(k - 1))

\* The value selector code k has in the file.
SelectorCode(k) == SelectorAt(k + 1) - SelectorAt(k) - 1

PlainZero == \A q \in 0..(PlainCodes - 1) : FileBit(SelectorsStart + q) = 0

\* C24: with an nSelectors field S above 18002 all S selector codes are
\* read (the coding tables start at the bit after the S-th code), only codes
\* 0..18001 are stored (selectorMtf has no cell at 18002 or above),
\* nSelectors becomes 18002, and the first coding table starts with the 5
\* bits that follow the S-th code.
C24_Stored ==
    /\ DOMAIN s.selectorMtf \subseteq 0..(BZ_MAX_SELECTORS - 1)
    /\ DOMAIN s.selector \subseteq 0..(BZ_MAX_SELECTORS - 1)
    /\ (NoError /\ s.state = "BZ_X_SELECTOR_3") =>
          /\ Locals.nSelectors = SelectorField
          /\ Locals.i < SelectorField
          /\ (pc = "BZ2_decompress" /\ loc.j = 0) => BitPos(M) = SelectorAt(loc.i)
          /\ \A k \in Near..(Locals.i - 1) :
                k < BZ_MAX_SELECTORS => s.selectorMtf[k] = SelectorCode(k)
    /\ (NoError /\ s.state \in AfterSelectors) =>
          /\ Locals.nSelectors = Min(SelectorField, BZ_MAX_SELECTORS)
          /\ DOMAIN s.selectorMtf = 0..(Locals.nSelectors - 1)
          /\ \A k \in Near..(Locals.nSelectors - 1) :
                /\ s.selectorMtf[k] = SelectorCode(k)
                /\ s.selector[k] = IF s.selectorMtf[k] = 0 THEN s.selector[k - 1]
                                   ELSE 1 - s.selector[k - 1]

C24_Step ==
    (s.state = "BZ_X_SELECTOR_3" /\ s'.state # "BZ_X_SELECTOR_3") =>
        /\ s'.state = "BZ_X_CODING_1" /\ pc' = "BZ2_decompress"
        /\ loc.i + 1 = SelectorField
        /\ 8 * strm'.next_in - s'.bsLive = SelectorAt(SelectorField)
        /\ loc'.nSelectors = Min(SelectorField, BZ_MAX_SELECTORS)
        /\ loc'.t = 0

C24_Tables ==
    (AtFetch("BZ_X_CODING_1") /\ loc.t = 0) =>
        /\ BitPos(M) = SelectorAt(SelectorField)
        /\ loc'.curr = FileBits(SelectorAt(SelectorField), 5)

C24_SelectorClamp == [](C24_Stored) /\ [][C24_Step /\ C24_Tables]_vars

\* The first coding table about to be read after 18010 selector codes.
C24_Witness ==
    /\ AtFetch("BZ_X_CODING_1") /\ loc.t = 0
    /\ SelectorField = 18010
    /\ loc.i = BZ_MAX_SELECTORS /\ loc.nSelectors = BZ_MAX_SELECTORS
    /\ BitPos(M) = SelectorsStart + 18010 + 10
    /\ DOMAIN s.selectorMtf = 0..(BZ_MAX_SELECTORS - 1)
    /\ s.selectorMtf[BZ_MAX_SELECTORS - 2] = 1
    /\ PlainZero

(***************************************************************************)
(* The fast-mode inversion (lines 538-557)                                 *)
(***************************************************************************)
\* The fast-mode session of the block, once the end-of-block code has run.
Inverted == blk.pc = "parsed" /\ blk.fast.at = "output"
Fast == blk.fast.m.s

\* The largest block index shifted by line 543, over every block size: with
\* i < 2^23 the int32_t value i << 8 is below 2^31.
MaxShifted == 9 * BlockUnit - 1

\* C31: after the fast-mode pass over i = 0..nblock-1, tt has exactly the
\* cells 0..nblock-1 (no index at or above nblock was written), every tt[i]
\* is a 32-bit value whose low 8 bits are the block byte stored at i, the map
\* i -> tt[i] >> 8 is a permutation of 0..nblock-1 that leads from each
\* position to one holding the same byte as the sorted column, i << 8 stays
\* below 2^31 for every block size, and tPos was set to tt[origPtr] >> 8
\* before the first source byte was taken through it.
C31_FastInversion ==
    /\ MaxShifted < Pow2(23)
    /\ Inverted =>
          LET n == Len(blk.bytes)
              tt == Fast.tt
              ptr == [i \in 0..(n - 1) |-> Shr(tt[i], 8)]
              first == ptr[blk.origPtr]
          IN /\ blk.fast.m.loc.nblock = n
             /\ DOMAIN tt = 0..(n - 1)
             /\ \A i \in 0..(n - 1) :
                   /\ tt[i] >= 0 /\ Shr(tt[i], 8) < Pow2(23)
                   /\ tt[i] % 256 = blk.bytes[i + 1]
                   /\ ptr[i] \in 0..(n - 1)
             /\ \A i, j \in 0..(n - 1) : ptr[i] = ptr[j] => i = j
             /\ {ptr[i] : i \in 0..(n - 1)} = 0..(n - 1)
             \* position k of the sorted column holds the byte of position ptr[k]
             /\ \A i, j \in 0..(n - 1) :
                   i < j => \/ blk.bytes[ptr[i] + 1] < blk.bytes[ptr[j] + 1]
                            \/ /\ blk.bytes[ptr[i] + 1] = blk.bytes[ptr[j] + 1]
                               /\ ptr[i] < ptr[j]
             /\ Len(blk.fast.src) = 1 =>
                   /\ Fast.k0 = tt[first] % 256
                   /\ Fast.tPos = Shr(tt[first], 8)
                   /\ Fast.nblock_used = 1

C31_Witness ==
    /\ Inverted
    /\ blk.bytes = <<98, 97, 98>> /\ blk.origPtr = 1
    /\ Len(blk.fast.src) = 1
    /\ Shr(Fast.tt[0], 8) = 1 /\ Shr(Fast.tt[1], 8) = 0 /\ Shr(Fast.tt[2], 8) = 2
    /\ Fast.tPos = 1 /\ Fast.k0 = 98

\* The same in a whole decoding session: in BZ_X_OUTPUT of the fast mode the
\* upper 24 bits of tt[0..nblock-1] are a permutation of 0..nblock-1 in the
\* order of the bytes below them.
SessionInverted ==
    (s.state = "BZ_X_OUTPUT" /\ ~s.smallDecompress) =>
        LET n == Locals.nblock
            ptr == [i \in 0..(n - 1) |-> Shr(s.tt[i], 8)]
        IN /\ {ptr[i] : i \in 0..(n - 1)} = 0..(n - 1)
           /\ \A i \in 1..(n - 1) :
                 \/ s.tt[ptr[i - 1]] % 256 < s.tt[ptr[i]] % 256
                 \/ /\ s.tt[ptr[i - 1]] % 256 = s.tt[ptr[i]] % 256
                    /\ ptr[i - 1] < ptr[i]

(***************************************************************************)
(* The small-mode pointer reversal (lines 507-528)                         *)
(***************************************************************************)
\* The small-mode session of the block, once the end-of-block code has run.
Reversed == blk.pc = "parsed" /\ blk.small.at = "output"
Small == blk.small.m.s

\* The forward map T of lines 511-515: position i goes to the place of its
\* byte in the sorted column.
ForwardT(bytes) ==
    [i \in 0..(Len(bytes) - 1) |->
        Cardinality({k \in 0..(Len(bytes) - 1) : bytes[k + 1] < bytes[i + 1]})
        + Cardinality({k \in 0..(i - 1) : bytes[k + 1] = bytes[i + 1]})]

\* The cycle of T through i.
RECURSIVE Orbit(_, _, _)
Orbit(T, i, seen) == IF i \in seen THEN seen ELSE Orbit(T, T[i], seen \cup {i})

\* C32: for every block that passed the checks, whatever the cycles of its
\* forward map T, the do-while loop of the pointer reversal ends after as many
\* passes as the cycle of T through origPtr has entries, which is at most
\* nblock; ll16 and ll4 have no cell beyond those of positions 0..nblock-1;
\* the loop left i = origPtr; on that cycle the cells hold the inverse of T
\* and every other cell still holds T.
C32_PointerReversal ==
    Reversed =>
        LET n == Len(blk.bytes)
            T == ForwardT(blk.bytes)
            cyc == Orbit(T, blk.origPtr, {})
        IN /\ blk.small.m.hist.rev = Cardinality(cyc)
           /\ blk.small.m.hist.rev \in 1..n
           /\ DOMAIN Small.ll16 = 0..(n - 1)
           /\ DOMAIN Small.ll4 \subseteq 0..Shr(n - 1, 1)
           /\ blk.small.m.loc.i = blk.origPtr
           /\ \A j \in 0..(n - 1) :
                 /\ GET_LL(Small, j) \in 0..(n - 1)
                 /\ j \in cyc => GET_LL(Small, T[j]) = j
                 /\ j \notin cyc => GET_LL(Small, j) = T[j]

\* A block whose forward map has two cycles, (0) and (1 2), started on the
\* second: two passes, cell 0 left alone.
C32_Witness ==
    /\ Reversed
    /\ blk.bytes = <<97, 98, 97>> /\ blk.origPtr = 1
    /\ ForwardT(blk.bytes) = (0 :> 0 @@ 1 :> 2 @@ 2 :> 1)
    /\ Orbit(ForwardT(blk.bytes), 1, {}) = {1, 2}
    /\ blk.small.m.hist.rev = 2
    /\ GET_LL(Small, 0) = 0 /\ GET_LL(Small, 1) = 2 /\ GET_LL(Small, 2) = 1

\* The same in a whole decoding session: in BZ_X_OUTPUT of the small mode the
\* loop has made at most nblock passes and the cells 0..nblock-1 hold a
\* permutation of 0..nblock-1.
SessionReversed ==
    (s.state = "BZ_X_OUTPUT" /\ s.smallDecompress) =>
        LET n == Locals.nblock
        IN /\ hist.rev \in 1..n
           /\ {GET_LL(s, i) : i \in 0..(n - 1)} = 0..(n - 1)

(***************************************************************************)
(* The bit buffer (GET_BITS, lines 42-62)                                  *)
(***************************************************************************)
\* A fetch is pending and has too few live bits / has enough of them.
Starved == pc = "BZ2_decompress" /\ s.bsLive < Width(M)
Served == pc = "BZ2_decompress" /\ s.bsLive >= Width(M)

\* The live bits of the buffer, as a number.
LiveBits(ds) == Field32(ds.bsBuff, 0, ds.bsLive)

C33_Range ==
    /\ s.bsLive \in 0..32
    /\ s.bsBuff[1] \in 0..(H16 - 1) /\ s.bsBuff[2] \in 0..(H16 - 1)
    /\ pc = "BZ2_decompress" => Width(M) \in 1..24
    /\ s.state \in {"BZ_X_MTF_1", "BZ_X_MTF_3", "BZ_X_MTF_5"} =>
          Locals.zn \in 1..BZ_MAX_CODE_LEN

C33_Step ==
    /\ (Starved /\ strm.avail_in # 0) =>
          /\ s.bsLive + 8 <= 32
          /\ s'.bsLive = s.bsLive + 8
          /\ Field32(s'.bsBuff, 8, s.bsLive) = LiveBits(s)
          /\ Field32(s'.bsBuff, 0, 8) = input[strm.next_in + 1]
    /\ Served =>
          /\ s'.bsLive = s.bsLive - Width(M)
          /\ s'.bsBuff = s.bsBuff
          /\ LiveBits(s') = Low(LiveBits(s), s'.bsLive)
    /\ (pc # "BZ2_decompress" /\ pc' # "caller") =>
          s'.bsLive = s.bsLive /\ s'.bsBuff = s.bsBuff

\* C33: in every state 0 <= bsLive <= 32 and the fetch pending at the current
\* label asks for 1 to 24 bits (1 to 20 for a Huffman code); a step that
\* loads a byte finds at most 24 live bits, so that after the shift by 8 the
\* bits that were live are all still in the 32-bit buffer, above the new
\* byte; a step that completes a fetch takes exactly the width from bsLive
\* and leaves the buffer as it is; no other step of a session touches either.
C33_BitBuffer == [](C33_Range) /\ [][C33_Step]_vars

C33_Witness ==
    /\ Served
    /\ s.state = "BZ_X_SELECTOR_2" /\ s.bsLive = 20
    /\ Val(M) >= 1

(***************************************************************************)
(* Lazy loading of input bytes                                             *)
(***************************************************************************)
\* The width of the fetch at the label the session is at, in or between calls.
Pending == Width([M EXCEPT !.loc = Locals])

\* The call is about to return, or has returned, BZ_OK at a fetch label.
Suspended ==
    /\ pc \in {"save_state_and_return", "returned"}
    /\ loc.retVal = "BZ_OK"
    /\ s.state \notin {"BZ_X_IDLE", "BZ_X_OUTPUT"}

C34_Held ==
    \* the byte loaded last holds a bit of the pending fetch or of one parsed
    /\ s.bsLive <= Pending + 7
    /\ s.state \in {"BZ_X_IDLE", "BZ_X_OUTPUT"} => s.bsLive <= 7
    /\ Suspended => s.bsLive < Pending /\ strm.avail_in = 0
    /\ strm.next_in > 0 => BitPos(M) + Pending > 8 * (strm.next_in - 1)

C34_Step ==
    /\ (ref' = ref /\ strm'.next_in # strm.next_in) =>
          Starved /\ strm'.next_in = strm.next_in + 1
    /\ Served => s'.bsLive <= 7
    /\ (pc = "BZ2_decompress" /\ pc' = "save_state_and_return"
        /\ loc'.retVal = "BZ_OK" /\ s'.state # "BZ_X_OUTPUT") =>
          Starved /\ strm.avail_in = 0 /\ s' = s

\* C34: a byte is loaded only by a fetch that has fewer live bits than it
\* asks for; every completed fetch leaves at most 7 live bits; a call that
\* returns BZ_OK at a fetch label (for lack of input) has fewer live bits
\* than the fetch asks for and no input left; and in every state the last
\* byte consumed holds at least one bit that has been parsed or that the
\* pending fetch is about to take.
C34_LazyLoad == [](C34_Held) /\ [][C34_Step]_vars

C34_Witness ==
    /\ pc = "returned" /\ Suspended
    /\ s.state = "BZ_X_SELECTOR_2" /\ s.bsLive = 12
    /\ strm.next_in > 0

(***************************************************************************)
(* Allocation of the block buffers (lines 209-216)                         *)
(***************************************************************************)
\* The block buffers of the mode are allocated for blockSize100k.
BuffersReady ==
    LET n == BlockUnit * s.blockSize100k IN
    IF s.smallDecompress THEN s.ll16Alloc = n /\ s.ll4Alloc = Shr(1 + n, 1)
    ELSE s.ttAlloc = n

\* This step of the session calls BZALLOC.
Allocating == ref' = ref /\ hist'.allocs # hist.allocs

C35_Once ==
    /\ hist.allocs \in {0, 1}
    /\ hist.allocs = 0 =>
          /\ s.state \in MagicLabels
          /\ s.ttAlloc = 0 /\ s.ll16Alloc = 0 /\ s.ll4Alloc = 0
    /\ s.state \notin MagicLabels =>
          hist.allocs = 1 /\ s.blockSize100k \in 1..9 /\ BuffersReady

C35_Step ==
    /\ Allocating =>
          \* the fetch completed is that of the fourth byte of the stream
          /\ AtFetch("BZ_X_MAGIC_4") /\ strm.next_in = 4 /\ s.bsLive = 8
          /\ ~LevelOutOfRange(Val(M))
          /\ hist.allocs = 0 /\ hist'.allocs = 1
          /\ BitPos(M') = 32
          /\ IF BuffersReady'
             THEN s'.state = "BZ_X_BLKHDR_1" /\ pc' = "BZ2_decompress"
             ELSE /\ s'.state = "BZ_X_MAGIC_4"
                  /\ pc' = "save_state_and_return"
                  /\ loc'.retVal = "BZ_MEM_ERROR"
    /\ (ref' = ref /\ ~Allocating) =>
          /\ s'.ttAlloc = s.ttAlloc
          /\ s'.ll16Alloc = s.ll16Alloc
          /\ s'.ll4Alloc = s.ll4Alloc
    /\ (ref' = ref /\ s'.state = "BZ_X_BLKHDR_1" /\ s.state # "BZ_X_BLKHDR_1") =>
          BuffersReady' /\ (Allocating <=> s.state = "BZ_X_MAGIC_4")

\* C35: in every run of a session the block buffers (tt, or ll16 and ll4) are
\* allocated exactly once, by the step that has validated the fourth byte of
\* the stream, before the first block-header byte is fetched; every later
\* block starts with the same buffers; and a failed allocation makes that
\* call return BZ_MEM_ERROR.
C35_AllocationOrdering == [](C35_Once) /\ [][C35_Step]_vars

\* The same for the part of a run that precedes its first error return.
C35_UntilError ==
    /\ [](hist.err = "none" => C35_Once)
    /\ [][hist.err = "none" => C35_Step]_vars

\* A second block of the stream is entered with the buffers of the first.
C35_Reused ==
    /\ hist.err = "none" /\ s.state = "BZ_X_BLKHDR_2" /\ hist.crcs # <<>>
    /\ hist.allocs = 1 /\ BuffersReady

(***************************************************************************)
(* From parsing to output (lines 499-559, 586-592)                         *)
(***************************************************************************)
Parked == {"BZ_X_IDLE", "BZ_X_OUTPUT"}

\* The byte at place p of the sorted block, from the counts of the bytes.
SortedAt(unzftab, p) ==
    CHOOSE b \in 0..255 :
        /\ SumOver(unzftab, {k \in DOMAIN unzftab : k < b}) <= p
        /\ p < SumOver(unzftab, {k \in DOMAIN unzftab : k <= b})

\* This step of BZ2_decompress sets state = BZ_X_OUTPUT.
HandOver == pc = "BZ2_decompress" /\ s'.state = "BZ_X_OUTPUT"

C36_Parked ==
    /\ pc = "BZ2_decompress" => s.state \notin Parked
    /\ (pc = "save_state_and_return" /\ s.state \in Parked) =>
          loc.retVal = (IF s.state = "BZ_X_OUTPUT" THEN "BZ_OK" ELSE "BZ_STREAM_END")

C36_Step ==
    /\ HandOver =>
          /\ EobReached /\ ~OrigPtrBad(s.origPtr, loc'.nblock)
          /\ s'.state_out_len = 0
          /\ s'.calculatedBlockCRC = Ones32
          /\ s'.nblock_used = 1
          /\ s'.blockRandomised = 0 => s'.k0 = SortedAt(s'.unzftab, s.origPtr)
          /\ pc' = "save_state_and_return" /\ loc'.retVal = "BZ_OK"
          /\ strm' = strm
          /\ s'.bsLive = s.bsLive - Width(M) /\ s'.bsBuff = s.bsBuff
    /\ (EobReached /\ ~OrigPtrBad(s.origPtr, loc'.nblock)) => HandOver
    \* no input is parsed while the state is BZ_X_OUTPUT or BZ_X_IDLE
    /\ (ref' = ref /\ s.state \in Parked) =>
          /\ strm'.next_in = strm.next_in
          /\ s'.bsLive = s.bsLive /\ s'.bsBuff = s.bsBuff
          /\ s'.state # s.state =>
                /\ s.state = "BZ_X_OUTPUT" /\ s'.state = "BZ_X_BLKHDR_1"
                /\ pc = "bzDecompress"
    \* a block header is begun after the level byte or after a drained block
    /\ (ref' = ref /\ s'.state = "BZ_X_BLKHDR_1" /\ s.state # "BZ_X_BLKHDR_1") =>
          s.state \in {"BZ_X_MAGIC_4", "BZ_X_OUTPUT"}

\* C36: the step that reads EOB of a block whose origPtr is in range sets
\* state = BZ_X_OUTPUT with state_out_len = 0, calculatedBlockCRC = 0xffffffff,
\* nblock_used = 1 and k0 the first byte of the block (the byte at place
\* origPtr of the sorted block), and goes to the exit with BZ_OK, taking from
\* the input nothing but the bits of EOB; BZ2_decompress is never at a fetch
\* with state BZ_X_OUTPUT or BZ_X_IDLE, no step made in those states moves
\* next_in or the bit buffer, and the state leaves BZ_X_OUTPUT only for
\* BZ_X_BLKHDR_1, set outside BZ2_decompress.
C36_HandOver == [](C36_Parked) /\ [][C36_Step]_vars

C36_Witness ==
    /\ pc = "save_state_and_return" /\ s.state = "BZ_X_OUTPUT"
    /\ loc.retVal = "BZ_OK" /\ hist.err = "none"
    /\ s.nblock_used = 1 /\ s.state_out_len = 0
    /\ s.calculatedBlockCRC = Ones32
    /\ s.k0 = SortedAt(s.unzftab, s.origPtr)
    /\ strm.avail_in > 0
    /\ hist.crcs # <<>>

(***************************************************************************)
(* The same block after different blocks                                   *)
(*                                                                         *)
(* A block under test is decoded three times, each time in a new session   *)
(* with the whole file supplied: as the first block of its stream, after a *)
(* block with a smaller alphabet and after one with a larger alphabet,     *)
(* three coding tables and three selectors.  The blocks are bit strings; a   *)
(* file is the stream header, the block before and the block under test,   *)
(* packed into bytes, so the block under test starts at bit 0, 4 or 6 of a *)
(* byte.                                                                    *)
(***************************************************************************)
\* A block over 0x61 and 0x62, two tables, one selector: "bb".
\* A block over 0x61..0x64 and 0xff, three tables of 7 code lengths each,
\* the selectors 2, 0, 1, 21 symbols (26 bytes).
\* The blocks under test: over 0x61, RUNA RUNA EOB; over 0x61 with an
\* unassigned code after RUNA; over 0x62..0x64 with literals and runs and
\* the selector 1; as the first but with origPtr = 5 >= nblock.
SmallPrefix ==
    <<0, 0, 1, 1, 0, 0, 0, 1, 0, 1, 0, 0, 0, 0, 0, 1, 0, 1, 0, 1, 1, 0, 0, 1,
      0, 0, 1, 0, 0, 1, 1, 0, 0, 1, 0, 1, 0, 0, 1, 1, 0, 1, 0, 1, 1, 0, 0, 1,
      1, 0, 0, 1, 1, 0, 1, 1, 0, 1, 1, 1, 1, 0, 0, 0, 1, 0, 1, 0, 0, 0, 1, 0,
      0, 0, 0, 1, 1, 1, 1, 0, 0, 0, 0, 0, 0, 0, 0, 0, 0, 0, 0, 0, 0, 0, 0, 0,
      0, 0, 0, 0, 0, 0, 0, 0, 1, 0, 0, 0, 0, 0, 0, 1, 0, 0, 0, 0, 0, 0, 0, 0,
      0, 0, 1, 1, 0, 0, 0, 0, 0, 0, 0, 0, 0, 0, 0, 0, 0, 0, 1, 0, 0, 0, 0, 0,
      0, 0, 0, 0, 0, 0, 0, 0, 0, 0, 1, 0, 0, 0, 0, 1, 0, 0, 0, 0, 0, 0, 0, 0,
      1, 0, 0, 0, 0, 0, 0, 0, 1, 0, 1, 1>>

LargePrefix ==
    <<0, 0, 1, 1, 0, 0, 0, 1, 0, 1, 0, 0, 0, 0, 0, 1, 0, 1, 0, 1, 1, 0, 0, 1,
      0, 0, 1, 0, 0, 1, 1, 0, 0, 1, 0, 1, 0, 0, 1, 1, 0, 1, 0, 1, 1, 0, 0, 1,
      1, 1, 0, 1, 1, 1, 1, 1, 0, 1, 1, 1, 1, 0, 1, 1, 0, 1, 0, 1, 1, 1, 0, 1,
      0, 1, 1, 1, 1, 1, 1, 0, 0, 0, 0, 0, 0, 0, 0, 0, 0, 0, 0, 0, 0, 0, 0, 0,
      0, 0, 0, 0, 0, 0, 1, 1, 1, 0, 0, 0, 0, 0, 0, 1, 0, 0, 0, 0, 0, 0, 0, 0,
      1, 0, 1, 1, 1, 1, 0, 0, 0, 0, 0, 0, 0, 0, 0, 0, 0, 0, 0, 0, 0, 0, 0, 0,
      0, 0, 0, 0, 0, 0, 0, 0, 1, 0, 1, 1, 0, 0, 0, 0, 0, 0, 0, 0, 0, 0, 0, 0,
      0, 1, 1, 1, 1, 0, 1, 0, 1, 1, 0, 0, 0, 0, 1, 1, 0, 0, 0, 0, 0, 0, 1, 1,
      0, 0, 0, 0, 1, 0, 0, 1, 0, 0, 0, 0, 0, 0, 0, 0, 0, 0, 0, 1, 0, 1, 0, 0,
      1, 0, 0, 1, 0, 0, 1, 0, 0, 1, 0, 0, 0, 1, 1, 0, 1, 1, 1, 0, 1, 1, 1, 1,
      0, 1, 1, 1, 1, 1, 0, 0, 1, 0, 1, 1, 0, 1, 1, 1, 1, 1, 0, 1, 1, 1, 0, 0,
      0, 1, 1, 1, 1, 0, 1, 1, 0, 1, 1, 0, 1, 1, 1, 0, 1, 1, 1, 1, 1, 0, 1, 0,
      1, 1, 1, 1, 0, 1, 1, 1, 0, 1, 1, 0, 1, 1, 1, 1, 1, 1>>

RunsOnly ==
    <<0, 0, 1, 1, 0, 0, 0, 1, 0, 1, 0, 0, 0, 0, 0, 1, 0, 1, 0, 1, 1, 0, 0, 1,
      0, 0, 1, 0, 0, 1, 1, 0, 0, 1, 0, 1, 0, 0, 1, 1, 0, 1, 0, 1, 1, 0, 0, 1,
      0, 0, 0, 1, 1, 1, 1, 1, 1, 1, 1, 0, 0, 1, 0, 1, 1, 1, 0, 1, 1, 1, 1, 1,
      1, 1, 0, 0, 1, 1, 1, 0, 0, 0, 0, 0, 0, 0, 0, 0, 0, 0, 0, 0, 0, 0, 0, 0,
      0, 0, 0, 0, 0, 0, 0, 0, 0, 0, 0, 0, 0, 0, 0, 1, 0, 0, 0, 0, 0, 0, 0, 0,
      0, 0, 1, 0, 0, 0, 0, 0, 0, 0, 0, 0, 0, 0, 0, 0, 0, 0, 1, 0, 0, 0, 0, 0,
      0, 0, 0, 0, 0, 0, 0, 0, 0, 0, 1, 0, 0, 0, 0, 1, 0, 0, 0, 0, 0, 0, 0, 1,
      0, 0, 0, 0, 0, 0, 0, 0, 1, 0>>

Unassigned ==
    <<0, 0, 1, 1, 0, 0, 0, 1, 0, 1, 0, 0, 0, 0, 0, 1, 0, 1, 0, 1, 1, 0, 0, 1,
      0, 0, 1, 0, 0, 1, 1, 0, 0, 1, 0, 1, 0, 0, 1, 1, 0, 1, 0, 1, 1, 0, 0, 1,
      0, 0, 0, 0, 0, 0, 0, 0, 0, 0, 0, 0, 0, 0, 0, 0, 0, 0, 0, 0, 0, 0, 0, 0,
      0, 0, 0, 0, 0, 0, 0, 0, 0, 0, 0, 0, 0, 0, 0, 0, 0, 0, 0, 0, 0, 0, 0, 0,
      0, 0, 0, 0, 0, 0, 0, 0, 0, 0, 0, 0, 0, 0, 0, 1, 0, 0, 0, 0, 0, 0, 0, 0,
      0, 0, 1, 0, 0, 0, 0, 0, 0, 0, 0, 0, 0, 0, 0, 0, 0, 0, 1, 0, 0, 0, 0, 0,
      0, 0, 0, 0, 0, 0, 0, 0, 0, 0, 1, 0, 0, 0, 0, 1, 0, 0, 0, 0, 0, 0, 0, 1,
      0, 0, 0, 0, 0, 0, 1, 1, 1, 1, 1, 1, 1, 1, 1, 1, 1, 1, 1, 1, 1, 1, 1, 1,
      1, 1, 1>>

Literals ==
    <<0, 0, 1, 1, 0, 0, 0, 1, 0, 1, 0, 0, 0, 0, 0, 1, 0, 1, 0, 1, 1, 0, 0, 1,
      0, 0, 1, 0, 0, 1, 1, 0, 0, 1, 0, 1, 0, 0, 1, 1, 0, 1, 0, 1, 1, 0, 0, 1,
      0, 0, 0, 0, 1, 0, 1, 1, 1, 1, 0, 0, 0, 1, 1, 1, 0, 0, 1, 1, 0, 0, 0, 1,
      0, 1, 0, 0, 1, 1, 1, 0, 0, 0, 0, 0, 0, 0, 0, 0, 0, 0, 0, 0, 0, 0, 0, 0,
      0, 0, 0, 0, 0, 0, 0, 1, 1, 0, 0, 0, 0, 0, 0, 1, 0, 0, 0, 0, 0, 0, 0, 0,
      0, 0, 0, 1, 1, 1, 0, 0, 0, 0, 0, 0, 0, 0, 0, 0, 0, 0, 1, 0, 0, 0, 0, 0,
      0, 0, 0, 0, 0, 0, 0, 0, 0, 0, 1, 1, 0, 0, 0, 0, 1, 1, 0, 0, 1, 1, 0, 0,
      0, 0, 0, 0, 0, 1, 0, 1, 0, 1, 0, 0, 0, 0, 0, 1, 0, 1, 1, 1, 0, 0, 1, 1,
      0, 1, 0, 0, 1, 0, 1, 1, 1, 1>>

OrigPtrOut ==
    <<0, 0, 1, 1, 0, 0, 0, 1, 0, 1, 0, 0, 0, 0, 0, 1, 0, 1, 0, 1, 1, 0, 0, 1,
      0, 0, 1, 0, 0, 1, 1, 0, 0, 1, 0, 1, 0, 0, 1, 1, 0, 1, 0, 1, 1, 0, 0, 1,
      0, 0, 0, 0, 0, 0, 0, 0, 0, 0, 0, 0, 0, 0, 0, 0, 0, 0, 0, 0, 0, 0, 0, 0,
      0, 0, 0, 0, 0, 0, 0, 0, 0, 0, 0, 0, 0, 0, 0, 0, 0, 0, 0, 0, 0, 0, 0, 0,
      0, 0, 0, 0, 0, 0, 1, 0, 1, 0, 0, 0, 0, 0, 0, 1, 0, 0, 0, 0, 0, 0, 0, 0,
      0, 0, 1, 0, 0, 0, 0, 0, 0, 0, 0, 0, 0, 0, 0, 0, 0, 0, 1, 0, 0, 0, 0, 0,
      0, 0, 0, 0, 0, 0, 0, 0, 0, 0, 1, 0, 0, 0, 0, 1, 0, 0, 0, 0, 0, 0, 0, 1,
      0, 0, 0, 0, 0, 0, 0, 0, 1, 0>>

Tested(k) ==
    CASE k = "RunsOnly" -> RunsOnly
      [] k = "Unassigned" -> Unassigned
      [] k = "Literals" -> Literals
      [] k = "OrigPtrOut" -> OrigPtrOut
UnderTest == {"RunsOnly", "Unassigned", "Literals", "OrigPtrOut"}

\* What comes before the block under test in the p-th session, and the
\* number of blocks it holds.
Prefixes == << <<>>, SmallPrefix, LargePrefix >>
Before(p) == Prefixes[p]
BlocksBefore(p) == IF Before(p) = <<>> THEN 0 ELSE 1
Sessions == Len(Prefixes)

\* The bits of a byte string, first bit first, and bits packed into bytes
\* (the last byte filled with 0 bits).
BitsOf(bytes) ==
    [b \in 1..(8 * Len(bytes)) |->
        (bytes[((b - 1) \div 8) + 1] \div Pow2(7 - ((b - 1) % 8))) % 2]
Pack(bits) ==
    [k \in 1..((Len(bits) + 7) \div 8) |->
        LET at(j) == IF 8 * (k - 1) + j <= Len(bits) THEN bits[8 * (k - 1) + j] ELSE 0
        IN 128 * at(1) + 64 * at(2) + 32 * at(3) + 16 * at(4)
           + 8 * at(5) + 4 * at(6) + 2 * at(7) + at(8)]

IndepFile(p, k) ==
    Pack(BitsOf(<<BZ_HDR_B, BZ_HDR_Z, BZ_HDR_h, BZ_HDR_0 + 1>>) \o Before(p) \o Tested(k))

InitIndep ==
    /\ \E k \in UnderTest :
          /\ input = IndepFile(1, k)
          /\ blk = [pc |-> "indep", k |-> k, p |-> 1, seen |-> <<>>]
    /\ \E small \in BOOLEAN : s = InitDState(small)
    /\ ref = NoRef
    /\ strm = InitStrm
    /\ loc = InitLocals
    /\ pc = "caller"
    /\ ret = "none"
    /\ hist = InitHist
    /\ drv = NoDrv

\* BZ2_decompress is about to return from the block under test: after its
\* EOB, at an error in it, or at the end of the file.
AtEndOfK ==
    /\ blk.pc = "indep"
    /\ pc = "save_state_and_return"
    /\ Len(hist.crcs) = BlocksBefore(blk.p)

\* What the parse of the block has produced.
ResultOfK ==
    LET counted == s.state \in MtfLabels \cup {"BZ_X_OUTPUT"}
        n == IF counted THEN loc.nblock ELSE 0
    IN [ret |-> loc.retVal,
        state |-> s.state,
        bits |-> BitPos(M) - hist.boundary,
        nblock |-> n,
        origPtr |-> s.origPtr,
        randomised |-> s.blockRandomised,
        storedBlockCRC |-> s.storedBlockCRC,
        inUse |-> TrueAt(s.inUse),
        seqToUnseq |-> [q \in 0..(s.nInUse - 1) |-> s.seqToUnseq[q]],
        block |-> [i \in 0..(n - 1) |->
                     IF s.smallDecompress THEN <<s.ll16[i], GET_LL4(s.ll4, i)>>
                     ELSE s.tt[i]],
        unzftab |-> IF counted THEN [b \in 0..255 |-> Get(s.unzftab, b)] ELSE <<>>,
        cftab |-> IF s.state = "BZ_X_OUTPUT" THEN s.cftab ELSE <<>>,
        first |-> IF s.state = "BZ_X_OUTPUT"
                  THEN <<s.k0, s.tPos, s.nblock_used, s.state_out_len>> ELSE <<>>]

\* The caller supplies the whole file.
Indep_Call ==
    /\ blk.pc = "indep"
    /\ pc = "caller" /\ ret = "none"
    /\ Apply(CallOp(M, Len(input)))

\* The result of the block is noted and the next session is opened
\* (BZ2_bzDecompressEnd, BZ2_bzDecompressInit) on the next file.
Indep_Record ==
    /\ AtEndOfK
    /\ blk' = [blk EXCEPT !.seen = Append(@, ResultOfK), !.p = @ + 1]
    /\ IF blk.p < Sessions
       THEN /\ input' = IndepFile(blk.p + 1, blk.k)
            /\ s' = InitDState(s.smallDecompress)
            /\ strm' = InitStrm
            /\ loc' = InitLocals
            /\ pc' = "caller"
            /\ ret' = "none"
            /\ hist' = InitHist
       ELSE /\ pc' = "done"
            /\ UNCHANGED <<input, s, strm, loc, ret, hist>>
    /\ UNCHANGED <<ref, drv>>

NextIndep ==
    \/ Indep_Call
    \/ Indep_Record
    \/ BZ2_decompress
    \/ GET_BITS_byte
    \/ BZ_X_MAGIC_4
    \/ BZ_X_MAGIC_1
    \/ BZ_X_MAGIC_2
    \/ BZ_X_MAGIC_3
    \/ BZ_X_BLKHDR_1
    \/ BZ_X_BLKHDR_2
    \/ BZ_X_BLKHDR_3
    \/ BZ_X_BLKHDR_4
    \/ BZ_X_BLKHDR_5
    \/ BZ_X_BLKHDR_6
    \/ BZ_X_BCRC_1
    \/ BZ_X_BCRC_2
    \/ BZ_X_BCRC_3
    \/ BZ_X_BCRC_4
    \/ BZ_X_RANDBIT
    \/ BZ_X_ORIGPTR_1
    \/ BZ_X_ORIGPTR_2
    \/ BZ_X_ORIGPTR_3
    \/ BZ_X_MAPPING_1
    \/ BZ_X_MAPPING_2
    \/ BZ_X_SELECTOR_1
    \/ BZ_X_SELECTOR_2
    \/ BZ_X_SELECTOR_3
    \/ BZ_X_CODING_1
    \/ BZ_X_CODING_2
    \/ BZ_X_CODING_3
    \/ BZ_X_MTF_1
    \/ BZ_X_MTF_2
    \/ BZ_X_MTF_3
    \/ BZ_X_MTF_4
    \/ BZ_X_MTF_5
    \/ BZ_X_MTF_6
    \/ (~AtEndOfK /\ save_state_and_return)
    \/ bzDecompress_ret
    \/ bzDecompress_output

SpecIndep == InitIndep /\ [][NextIndep]_vars

\* C37: the result of parsing a block (return code, the label and the bit
\* offset at which the parse ended, nblock, origPtr, the bytes in use, the
\* block array, unzftab, cftab and the first source byte) is the same in
\* every session that receives the same bits for it, whatever block the
\* session has parsed before.
C37_BlockIndependence ==
    blk.pc = "indep" =>
        /\ \A i \in 1..Len(blk.seen) : blk.seen[i] = blk.seen[1]
        /\ (AtEndOfK /\ blk.seen # <<>>) => ResultOfK = blk.seen[1]

\* The third session has parsed the block over 0x62..0x64 after the larger
\* block, whose fifth byte value, second selector and third coding table
\* are still in the session.
C37_Witness ==
    /\ AtEndOfK /\ blk.k = "Literals" /\ blk.p = 3
    /\ Len(blk.seen) = 2
    /\ s.state = "BZ_X_OUTPUT" /\ loc.retVal = "BZ_OK" /\ loc.nblock = 7
    /\ s.nInUse = 3 /\ Get(s.seqToUnseq, 4) = 255
    /\ loc.nSelectors = 1 /\ 1 \in DOMAIN s.selector
    /\ loc.nGroups = 2 /\ s.perm[2] # Empty /\ 6 \in DOMAIN s.perm[0]
    /\ 7 \in DOMAIN s.tt

(***************************************************************************)
(* bzip2recover: the scan for block boundaries and the splitting pass      *)
(* (src/bzip2recover.c).  The state of main and of the two bit streams is  *)
(* the record blk; the file is `input`, a record of its length in bytes    *)
(* and of the bytes it repeats (a file given in full is its own period).   *)
(* The four arrays have static storage (all cells 0); a cell is kept once  *)
(* it is written, except that the leading cells filled by the scan of the  *)
(* repeating file are kept as their number (field filled).                 *)
(***************************************************************************)
BZ_MAX_HANDLED_BLOCKS == 50000
BLOCK_HEADER_HI == 12609
BLOCK_HEADER_LO == <<22822, 21337>>
BLOCK_ENDMARK_HI == 6002
BLOCK_ENDMARK_LO == <<17720, 20624>>
EOF_BIT == 2

getc(f, pos) == IF pos >= f.len THEN -1 ELSE f.period[(pos % Len(f.period)) + 1]

bsOpenReadStream == [pos |-> 0, buffer |-> 0, buffLive |-> 0]
bsOpenWriteStream == [bytes |-> <<>>, buffer |-> 0, buffLive |-> 0]

\* bsGetBit: the next bit, most significant first, or 2 at the end of file.
bsGetBit(bs, f) ==
    IF bs.buffLive > 0
    THEN [bs |-> [bs EXCEPT !.buffLive = @ - 1],
          b |-> (bs.buffer \div Pow2(bs.buffLive - 1)) % 2]
    ELSE LET retVal == getc(f, bs.pos)
         IN IF retVal = -1
            THEN [bs |-> bs, b |-> EOF_BIT]
            ELSE [bs |-> [pos |-> bs.pos + 1, buffer |-> retVal, buffLive |-> 7],
                  b |-> (retVal \div 128) % 2]

\* bsPutBit: a full byte is written when the ninth bit arrives.
bsPutBit(bs, bit) ==
    IF bs.buffLive = 8
    THEN [bytes |-> Append(bs.bytes, bs.buffer), buffer |-> bit % 2, buffLive |-> 1]
    ELSE [bs EXCEPT !.buffer = 2 * @ + (bit % 2), !.buffLive = @ + 1]

RECURSIVE bsPutBits(_, _, _)
bsPutBits(bs, c, i) ==
    IF i < 0 THEN bs
    ELSE LET next == bsPutBit(bs, (c \div Pow2(i)) % 2)
         IN IF next.buffLive > 0 THEN bsPutBits(next, c, i - 1) ELSE next  \* buffLive >= 1 after bsPutBit

bsPutUChar(bs, c) == bsPutBits(bs, c, 7)

\* c is a 32-bit word held as its two 16-bit halves.
bsPutUInt32(bs, c) == bsPutBits(bsPutBits(bs, c[1], 15), c[2], 15)

RECURSIVE bsPutUChars(_, _)
bsPutUChars(bs, cs) ==
    IF cs = <<>> THEN bs
    ELSE LET next == bsPutUChar(bs, Head(cs))
         IN IF next.buffLive > 0 THEN bsPutUChars(next, Tail(cs)) ELSE next

\* bsClose of a write stream: the bytes of the file once it is closed.
RECURSIVE bsClose(_)
bsClose(bs) ==
    IF bs.buffLive < 8
    THEN bsClose([bs EXCEPT !.buffLive = @ + 1, !.buffer = 2 * @])
    ELSE Append(bs.bytes, bs.buffer % 256)

\* buffHi and buffLo as four 16-bit quarters, most significant first.
ShiftBuff(q, b) ==
    << (2 * q[1] + q[2] \div 32768) % 65536,
       (2 * q[2] + q[3] \div 32768) % 65536,
       (2 * q[3] + q[4] \div 32768) % 65536,
       (2 * q[4] + (b % 2)) % 65536 >>

IsMagic(q) ==
    \/ q[2] = BLOCK_HEADER_HI /\ <<q[3], q[4]>> = BLOCK_HEADER_LO
    \/ q[2] = BLOCK_ENDMARK_HI /\ <<q[3], q[4]>> = BLOCK_ENDMARK_LO

\* uint64_t values as four 16-bit limbs, least significant first.
U64(n) == <<n % 65536, n \div 65536, 0, 0>>
SubLimb(x, y, borrow) ==
    IF x - y - borrow < 0 THEN <<x - y - borrow + 65536, 1>> ELSE <<x - y - borrow, 0>>
Sub64(a, b) ==
    LET d1 == SubLimb(a[1], b[1], 0)
        d2 == SubLimb(a[2], b[2], d1[2])
        d3 == SubLimb(a[3], b[3], d2[2])
        d4 == SubLimb(a[4], b[4], d3[2])
    IN <<d1[1], d2[1], d3[1], d4[1]>>
\* w >= n for a small n
AtLeast64(w, n) == w[4] > 0 \/ w[3] > 0 \/ w[2] > 0 \/ w[1] >= n

\* An access to cell i of one of the four arrays.  The arrays are declared
\* one after the other (lines 306-309); a cell past the end of an array is
\* either the cell of the array that follows it in storage
\* (layout "adjacent") or some other storage (layout "apart"), which is
\* kept under the index used.
Following(name) ==
    CASE name = "bStart" -> "bEnd" [] name = "bEnd" -> "rbStart"
      [] name = "rbStart" -> "rbEnd" [] OTHER -> "none"
Landing(R, name, i) ==
    IF i >= BZ_MAX_HANDLED_BLOCKS /\ R.layout = "adjacent" /\ Following(name) # "none"
    THEN <<Following(name), i - BZ_MAX_HANDLED_BLOCKS>>
    ELSE <<name, i>>
Beyond(old, i) == IF i > old THEN i ELSE old
\* What the scan of the repeating file (the block pattern and one more
\* byte, over and over) leaves in cell i of bStart and of bEnd.
Filled(name, i) ==
    IF i = 0 \/ name \notin {"bStart", "bEnd"} THEN 0
    ELSE IF name = "bStart" THEN 56 * i - 8 ELSE 56 * i - 1
NoCells == [filled |-> 0, cells |-> Empty]
Cell(a, name, i) ==
    IF i \in DOMAIN a.cells THEN a.cells[i]
    ELSE IF i < a.filled THEN Filled(name, i) ELSE 0
Load(R, name, i) ==
    LET at == Landing(R, name, i) IN Cell(R[at[1]], at[1], at[2])
Store(R, name, i, v) ==
    LET at == Landing(R, name, i)
    IN [R EXCEPT ![at[1]].cells = Put(@, at[2], v), !.used[name] = Beyond(@, i)]
Touch(R, name, i) == [R EXCEPT !.used[name] = Beyond(@, i)]

\* main up to the scan loop (lines 352-360).
RecoverStart(layout) ==
    [pc |-> "scan", layout |-> layout,
     bsIn |-> bsOpenReadStream, bsWr |-> bsOpenWriteStream,
     bitsRead |-> 0, buff |-> <<0, 0, 0, 0>>,
     currBlock |-> 0, rbCtr |-> 0, wrBlock |-> 0,
     bStart |-> [filled |-> 0, cells |-> (0 :> 0)],
     bEnd |-> NoCells, rbStart |-> NoCells, rbEnd |-> NoCells,
     used |-> [bStart |-> 0, bEnd |-> -1, rbStart |-> -1, rbEnd |-> -1],
     blockCRC |-> <<0, 0>>, outFile |-> FALSE, files |-> <<>>]

\* One pass of the scan loop (lines 362-405).  AtEnd is the end of the
\* file (lines 365-376) with the close of the input and, if a block was
\* recorded, the set-up of the splitting pass (lines 407-432; buffHi and
\* buffLo are not cleared).  AtMagic is a block or end-of-stream pattern in
\* the last 48 bits (lines 385-403).
ScanStep(R, f) ==
    LET g == bsGetBit(R.bsIn, f)
        bitsRead == R.bitsRead + 1
        AtEnd(Q) ==
            LET Q0 == Touch(Q, "bStart", Q.currBlock)
                from == Load(Q, "bStart", Q.currBlock)
                Q1 == IF bitsRead >= from /\ bitsRead - from >= 40
                      THEN Store(Q0, "bEnd", Q.currBlock, bitsRead - 1)
                      ELSE [Q0 EXCEPT !.currBlock = @ - 1]
            IN IF Q1.rbCtr < 1
               THEN [Q1 EXCEPT !.pc = "exit"]
               ELSE [Q1 EXCEPT !.pc = "split", !.bsIn = bsOpenReadStream,
                               !.blockCRC = <<0, 0>>, !.bitsRead = 0,
                               !.outFile = FALSE, !.wrBlock = 0]
        AtMagic(Q) ==
            LET to == IF bitsRead > 49 THEN bitsRead - 49 ELSE 0
                Q1 == Store(Q, "bEnd", Q.currBlock, to)
                Q2 == Touch(Q1, "bStart", Q.currBlock)
                Q3 == IF Q.currBlock > 0
                         /\ AtLeast64(Sub64(U64(Load(Q1, "bEnd", Q.currBlock)),
                                            U64(Load(Q1, "bStart", Q.currBlock))), 130)
                      THEN LET a == Store(Q2, "rbStart", Q.rbCtr, Load(Q1, "bStart", Q.currBlock))
                               b == Store(a, "rbEnd", Q.rbCtr, Load(a, "bEnd", Q.currBlock))
                           IN [b EXCEPT !.rbCtr = @ + 1]
                      ELSE Q2
            IN IF Q.currBlock >= BZ_MAX_HANDLED_BLOCKS
               THEN [Q3 EXCEPT !.pc = "tooManyBlocks"]
               ELSE Store([Q3 EXCEPT !.currBlock = @ + 1], "bStart", Q.currBlock + 1, bitsRead)
        R1 == [R EXCEPT !.bsIn = g.bs, !.bitsRead = bitsRead]
    IN IF g.b = EOF_BIT THEN AtEnd(R1)
       ELSE LET R2 == [R1 EXCEPT !.buff = ShiftBuff(@, g.b)]
            IN IF IsMagic(R2.buff) THEN AtMagic(R2) ELSE R2

\* One pass of the splitting loop (lines 433-500).  Closing is the end of
\* a block (lines 449-458), Opening its start (lines 460-499); ok is
\* whether fopen_output_safely gave a file.
SplitStep(R, f, ok) ==
    LET g == bsGetBit(R.bsIn, f)
        Closing(Q) ==
            LET Q1 == IF R.outFile
                      THEN [Q EXCEPT !.files =
                                         Append(@, [n |-> R.wrBlock + 1,
                                                    bytes |-> bsClose(bsPutUInt32(bsPutUChars(Q.bsWr, EndMagic),
                                                                                  Q.blockCRC))]),
                                     !.outFile = FALSE]
                      ELSE Q
            IN IF R.wrBlock >= R.rbCtr THEN [Q1 EXCEPT !.pc = "finished"]
               ELSE [Q1 EXCEPT !.wrBlock = @ + 1]
        Opening(Q) ==
            IF ~ok THEN [Q EXCEPT !.pc = "exit"]
            ELSE [Q EXCEPT !.outFile = TRUE,
                           !.bsWr = bsPutUChars(bsOpenWriteStream,
                                                <<BZ_HDR_B, BZ_HDR_Z, BZ_HDR_h, BZ_HDR_0 + 9>>
                                                \o BlockMagic)]
    IN IF g.b = EOF_BIT THEN [R EXCEPT !.pc = "finished"]
       ELSE LET R1 == Touch([R EXCEPT !.bsIn = g.bs, !.buff = ShiftBuff(@, g.b)],
                            "rbStart", R.wrBlock)
                from == Load(R, "rbStart", R.wrBlock)
                R2 == IF R.bitsRead = 47 + from
                      THEN [R1 EXCEPT !.blockCRC = <<R1.buff[2], R1.buff[3]>>]
                      ELSE R1
                R3 == IF R.outFile /\ R.bitsRead >= from
                         /\ R.bitsRead <= Load(R, "rbEnd", R.wrBlock)
                      THEN [R2 EXCEPT !.bsWr = bsPutBit(@, g.b)]
                      ELSE R2
                R4 == Touch([R3 EXCEPT !.bitsRead = @ + 1], "rbEnd", R.wrBlock)
            IN IF R4.bitsRead = Load(R, "rbEnd", R.wrBlock) + 1 THEN Closing(R4)
               ELSE IF R4.bitsRead = from THEN Opening(R4)
               ELSE R4

\* Files for the recovery tool, as bit strings: the two 48-bit patterns and
\* stretches of other bits between them.
HeaderBits == BitsOf(BlockMagic)
EndBits == BitsOf(EndMagic)
Filler(n, a) == [i \in 1..n |-> ((i * i) \div 13 + a * i) % 2]
StreamBits == BitsOf(<<BZ_HDR_B, BZ_HDR_Z, BZ_HDR_h, BZ_HDR_0 + 9>>)

RecoverBits ==
    [One      |-> StreamBits \o HeaderBits \o Filler(131, 1) \o EndBits \o Filler(32, 2),
     Short    |-> HeaderBits \o Filler(130, 1) \o EndBits \o Filler(32, 2),
     Two      |-> Filler(13, 3) \o HeaderBits \o Filler(140, 1) \o HeaderBits
                  \o Filler(135, 4) \o EndBits \o Filler(20, 2),
     Adjacent |-> HeaderBits \o EndBits \o Filler(140, 1) \o HeaderBits \o Filler(9, 2),
     Overlap  |-> HeaderBits \o Filler(131, 4) \o EndBits \o Tail(HeaderBits) \o Filler(3, 1),
     Cut      |-> HeaderBits \o Filler(140, 1) \o HeaderBits \o Filler(150, 4),
     None     |-> Filler(24, 3)]

WholeFile(bytes) == [len |-> Len(bytes), period |-> bytes]
ManyPeriod == BlockMagic \o <<0>>
FewLen == 3 * Len(ManyPeriod) + 2
RecoverFiles ==
    {WholeFile(Pack(RecoverBits[n]) @@ <<>>) : n \in DOMAIN RecoverBits}
    \cup {[len |-> FewLen, period |-> ManyPeriod]}
Layouts == {"apart", "adjacent"}

InitRecover ==
    /\ input \in RecoverFiles
    /\ strm = InitStrm
    /\ s = InitDState(FALSE)
    /\ loc = InitLocals
    /\ pc = "caller"
    /\ ret = "none"
    /\ hist = InitHist
    /\ ref = NoRef
    /\ drv = NoDrv
    /\ \E layout \in Layouts : blk = RecoverStart(layout)

Scanning == blk.pc = "scan"
Splitting == blk.pc = "split"
AtEof(bs) == bsGetBit(bs, input).b = EOF_BIT

Scan_Bit ==
    /\ Scanning /\ ~AtEof(blk.bsIn)
    /\ blk' = ScanStep(blk, input)
    /\ UNCHANGED <<input, strm, s, loc, pc, ret, hist, ref, drv>>

Scan_Eof ==
    /\ Scanning /\ AtEof(blk.bsIn)
    /\ blk' = ScanStep(blk, input)
    /\ UNCHANGED <<input, strm, s, loc, pc, ret, hist, ref, drv>>

Split_Bit ==
    /\ Splitting /\ ~AtEof(blk.bsIn)
    /\ \E ok \in BOOLEAN : blk' = SplitStep(blk, input, ok)
    /\ UNCHANGED <<input, strm, s, loc, pc, ret, hist, ref, drv>>

Split_Eof ==
    /\ Splitting /\ AtEof(blk.bsIn)
    /\ blk' = SplitStep(blk, input, TRUE)
    /\ UNCHANGED <<input, strm, s, loc, pc, ret, hist, ref, drv>>

NextRecover == Scan_Bit \/ Scan_Eof \/ Split_Bit \/ Split_Eof

SpecRecover == InitRecover /\ [][NextRecover]_vars

\* The scan of the repeating file just after its n-th pattern, n >= 1:
\* pattern j (from 0) occupies bits 56j .. 56j+47, so block i >= 1 starts
\* at 56i - 8 and block i ends at 56i - 1 (block 0 at 0), 7 bits long: no
\* block is recorded.
AfterBoundaries(n, layout) ==
    [RecoverStart(layout) EXCEPT
        !.bsIn = [pos |-> 7 * n - 1, buffer |-> 89, buffLive |-> 0],
        !.bitsRead = 56 * n - 8,
        !.buff = <<IF n = 1 THEN 0 ELSE 22784, BLOCK_HEADER_HI,
                   BLOCK_HEADER_LO[1], BLOCK_HEADER_LO[2]>>,
        !.currBlock = n,
        !.bStart = [filled |-> n + 1, cells |-> Empty],
        !.bEnd = [filled |-> n, cells |-> Empty],
        !.used = [bStart |-> n, bEnd |-> n - 1, rbStart |-> -1, rbEnd |-> -1]]

Repeating == input.period = ManyPeriod
AfterPattern ==
    /\ Scanning /\ Repeating
    /\ blk.bsIn.buffLive = 0 /\ blk.bsIn.pos % Len(ManyPeriod) = Len(BlockMagic)
    /\ blk.currBlock < BZ_MAX_HANDLED_BLOCKS

\* The scan of the repeating file is in the state AfterBoundaries describes
\* after each of its patterns (checked from the start of the file under
\* SpecRecover and from ManyNear on under SpecMany).
Cells(a, name) ==
    [i \in (0..(a.filled - 1)) \cup DOMAIN a.cells |-> Cell(a, name, i)]
AllCells(R) ==
    [R EXCEPT !.bStart = Cells(@, "bStart"), !.bEnd = Cells(@, "bEnd"),
              !.rbStart = Cells(@, "rbStart"), !.rbEnd = Cells(@, "rbEnd")]
ScanOfRepeating ==
    AfterPattern => AllCells(blk) = AllCells(AfterBoundaries(blk.currBlock, blk.layout))

ManyNear == 49997
ManyLens ==
    {Len(ManyPeriod) * BZ_MAX_HANDLED_BLOCKS + 5,
     Len(ManyPeriod) * (BZ_MAX_HANDLED_BLOCKS + 1)}

InitMany ==
    /\ \E len \in ManyLens : input = [len |-> len, period |-> ManyPeriod]
    /\ strm = InitStrm
    /\ s = InitDState(FALSE)
    /\ loc = InitLocals
    /\ pc = "caller"
    /\ ret = "none"
    /\ hist = InitHist
    /\ ref = NoRef
    /\ drv = NoDrv
    /\ \E layout \in Layouts : blk = AfterBoundaries(ManyNear, layout)

NextMany == Scan_Bit \/ Scan_Eof

SpecMany == InitMany /\ [][NextMany]_vars

(***************************************************************************)
(* The files written by the recovery tool                                  *)
(***************************************************************************)
BitsOfFile == [i \in 1..(8 * input.len) |-> (getc(input, (i - 1) \div 8) \div Pow2(7 - ((i - 1) % 8))) % 2]
Recorded == 0..(blk.rbCtr - 1)
From(k) == Cell(blk.rbStart, "rbStart", k)
To(k) == Cell(blk.rbEnd, "rbEnd", k)
\* input bits a .. b, counted from 0
InputBits(a, b) == [j \in 1..(b - a + 1) |-> BitsOfFile[a + j]]
PatternAt(p) ==
    /\ p >= 0 /\ p + 48 <= 8 * input.len
    /\ InputBits(p, p + 47) \in {HeaderBits, EndBits}
ReWrapped(k) ==
    Pack(StreamBits \o HeaderBits \o InputBits(From(k), To(k)) \o EndBits
         \o InputBits(From(k), From(k) + 31))
Finished == blk.pc = "finished"

\* C38: for every recorded segment k there is exactly one output file,
\* number k+1, whose bytes are BZh9, the block pattern, the input bits
\* rbStart[k]..rbEnd[k], the end pattern and the input bits
\* rbStart[k]..rbStart[k]+31, padded with zero bits to a whole byte; a
\* recorded segment lies between two patterns of the input, so neither the
\* bits before the first pattern nor those after the last are written.
C38_ReWrapping ==
    /\ Len(blk.files) <= blk.rbCtr
    /\ \A x \in 1..Len(blk.files) :
          /\ blk.files[x] = [n |-> x, bytes |-> ReWrapped(x - 1)]
          /\ PatternAt(From(x - 1) - 48) /\ PatternAt(To(x - 1) + 1)
    /\ Finished => Len(blk.files) = blk.rbCtr

\* The same for the segments whose end is not before their start: these
\* and no others are written, in order, under their numbers.
Whole == {k \in Recorded : To(k) >= From(k)}
RECURSIVE Ascending(_)
Ascending(S) ==
    IF S = {} THEN <<>>
    ELSE LET k == CHOOSE x \in S : \A y \in S : x <= y
         IN <<k>> \o Ascending(S \ {k})
C38_WholeSegments ==
    /\ \A x \in 1..Len(blk.files) :
          LET k == Ascending(Whole)[x]
          IN /\ blk.files[x] = [n |-> k + 1, bytes |-> ReWrapped(k)]
             /\ PatternAt(From(k) - 48) /\ PatternAt(To(k) + 1)
    /\ Finished => Len(blk.files) = Cardinality(Whole)
C38_Written ==
    /\ Finished /\ input.len = Len(Pack(RecoverBits.Two))
    /\ Len(blk.files) = 2 /\ Len(blk.files[2].bytes) = 37

\* C39: every recorded segment has rbEnd[k] >= rbStart[k] + 130, also
\* when two patterns are fewer than 49 bits apart.
C39_MinimumLength == \A k \in Recorded : To(k) >= From(k) + 130

\* What holds instead: a recorded segment is that long, or ends before it
\* starts and lies between two patterns 45 to 48 bits apart.
C39_OrWrapped ==
    \A k \in Recorded :
        \/ To(k) >= From(k) + 130
        \/ /\ To(k) < From(k) /\ From(k) - To(k) \in 1..4
           /\ PatternAt(From(k) - 48) /\ PatternAt(To(k) + 1)
C39_Wrapped == \E k \in Recorded : To(k) + 1 = From(k)

\* C40: every index used with bStart, bEnd, rbStart or rbEnd is below
\* BZ_MAX_HANDLED_BLOCKS, in the scan and in the splitting pass, and so it
\* is when tooManyBlocks is reached.
C40_IndexBounds == \A a \in DOMAIN blk.used : blk.used[a] < BZ_MAX_HANDLED_BLOCKS

\* What holds instead: bStart and bEnd are used up to index 50000, rbStart
\* and rbEnd below it; the splitting pass uses indices up to rbCtr.
C40_OneBeyond ==
    /\ blk.used.bStart <= BZ_MAX_HANDLED_BLOCKS /\ blk.used.bEnd <= BZ_MAX_HANDLED_BLOCKS
    /\ blk.used.rbStart <= blk.rbCtr /\ blk.used.rbEnd <= blk.rbCtr
    /\ blk.rbCtr < BZ_MAX_HANDLED_BLOCKS
C40_TooMany == blk.pc = "tooManyBlocks" /\ blk.used.bEnd = BZ_MAX_HANDLED_BLOCKS

====
